---- MODULE Spec2Model ----
(***************************************************************************)
(* Overlay engine of static/js/feed_overlays.js: camera entries (dataMap), *)
(* the detection channels created by connectDetections, the overlay flags  *)
(* and the browser events that drive them (token responses, socket        *)
(* events, timers, refresh ticks, image load, window resize), with the    *)
(* settings channel of makeSocket and the line editor of                  *)
(* enableLineEditor / saveLine.                                           *)
(*                                                                         *)
(* The browser runs one callback at a time, so every action below is one   *)
(* callback run to completion (or, for the async start(), the part up to   *)
(* its await and the part after it).                                       *)
(***************************************************************************)
EXTENDS Integers, Sequences, FiniteSets, TLC

\* ---------------------------------------------------------------- bounds
MaxFetch  == 2   \* token requests issued in one run
MaxSocks  == 2   \* WebSocket objects created in one run
MaxMsgs   == 1   \* inbound detection messages delivered in one run
MaxBurst  == 6   \* inbound detection messages delivered in one run of the message study
MaxChanSocks == 6  \* WebSocket objects created in one run of the reconnect study
MaxModalEvents == 5  \* modal and unload events dispatched in one run of the preview study
MaxApplyMsgs == 3  \* inbound detection messages delivered in one run of the apply study
MaxSettingsSocks == 4  \* WebSocket objects the settings channel creates in one run
MaxPings == 3  \* keep-alive probes sent in one run
MaxLineMsgs == 1  \* inbound detection messages delivered in one run of the line study
MaxSaves == 2  \* saveLine calls of a camera that send a request in one run
MaxEdits == 2  \* times the line editor of a camera attaches its listeners in one run

\* ------------------------------------------------------- program constants
BaseDelay == 1000
MaxDelay  == 10000
LogCap    == 5

\* ------------------------------------------------------------ page fixture
Cams      == {1, 2}
NoToken   == 0

FlagNames == {"show_lines", "show_track_lines", "show_counts", "show_ids",
              "show_face_boxes", "show_person", "show_vehicle", "show_faces"}
SettingNames == {"show_lines", "show_track_lines", "show_counts",
                 "show_face_boxes", "show_ids"}
\* toggle buttons present on the page
Buttons   == {"show_ids"}
\* who calls entry.start()
Origins   == {"applyOverlay", "setupFeed", "lineEditor"}

CloseCodes == {1000, 1008}

\* inbound detection payloads; 0 stands for an omitted / empty field. id is the
\* text of the raw message, tracks the part of a detection payload that differs
\* from message to message: the n-th message delivered is Stamp(m, n)
MData1 == [kind |-> "data", id |-> 0, src |-> 1, tracks |-> 1, lines |-> 1, ppe |-> 1, counts |-> 1]
MUnauth == [kind |-> "unauthorized", id |-> 0, src |-> 0, tracks |-> 0, lines |-> 0, ppe |-> 0, counts |-> 0]
MGarbage == [kind |-> "garbage", id |-> 0, src |-> 0, tracks |-> 0, lines |-> 0, ppe |-> 0, counts |-> 0]
Msgs == {MData1, MUnauth, MGarbage}

\* detection messages that omit fields: one carrying tracks only, one carrying
\* nothing (a field that is omitted is 0 here)
MTracksOnly == [kind |-> "data", id |-> 0, src |-> 0, tracks |-> 1, lines |-> 0, ppe |-> 0, counts |-> 0]
MBare == [kind |-> "bare", id |-> 0, src |-> 0, tracks |-> 0, lines |-> 0, ppe |-> 0, counts |-> 0]
Sparse == {MTracksOnly, MBare}

Stamp(m, n) == [m EXCEPT !.id = n, !.tracks = IF m.kind = "data" THEN n ELSE 0]

\* remote settings payloads (msg.data of a {type:"settings"} push)
PushData == { [n \in {"show_lines"} |-> TRUE] }

\* values of entry.close
NullClose == 0
NoopClose == -1

VARIABLES
  boot,       \* how far init() has got: "loaded" (not called), "config" (suspended at
              \* await loadSettings()), "ready" (done)
  buttons,    \* the overlay toggle buttons on the page, by their data-flag
  defaults,   \* defaults.show_*
  limits,     \* how many token requests, sockets and messages the run may use, and
              \* how many times the line editor of a camera may attach its listeners
  feeds,      \* the feed images on the page that are opted into overlays
  dataToken,  \* dataToken[cam]: container.dataset.token
  flags,      \* overlayState.flags
  settings,   \* settings.show_*
  stored,     \* localStorage[overlayState.key]: <<>> when absent, else <<flags>>
  dataMap,    \* dataMap[cam]: the camera entry
  chans,      \* chans[cam]: the closures created by connectDetections(cam, entry)
  pending,    \* pending[cam][origin]: number of start() invocations suspended at
              \* await fetch('/api/token'), by caller
  onceL,      \* armed {once:true} cleanup listeners (pagehide, beforeunload)
  warn,       \* #token-warning is visible
  logEl,      \* #yolo-log text (list of raw messages)
  nFetch,     \* token requests issued
  nSock,      \* WebSocket objects created
  nMsgs,      \* messages delivered
  rafQ,       \* the animation-frame callbacks requested and not yet run or
              \* cancelled, oldest first: <<cam, channel>>
  pass,       \* the last renderOverlay(ctx, canvas, info) call of the drawing study:
              \* its canvas, its info and the ctx calls it made
  mjpeg,      \* the MJPEG preview page: its feed images, the set `opened` and the
              \* show / hide requests sent
  settingsWs, \* the settings channel of makeSocket('/ws/config'): its sockets, their
              \* keep-alive intervals and the reconnect timer
  editor,     \* editor[cam]: the closure of enableLineEditor(cam) and the PATCH
              \* requests of saveLine(cam)
  toasts,     \* toasts shown by the last callback
  renders,    \* renderOverlay invocations of the last callback: <<cam, via>>
  cause       \* the last callback: op, the callback; by, the operation it belongs
              \* to (for the continuation of start(), the caller of that start());
              \* res, what it was handed (token answer, close code, message kind);
              \* cam, the camera whose entry or channel it runs for (0: the page);
              \* ch, the channel it runs for (0: none)

vars == <<boot, buttons, defaults, limits, feeds, dataToken, flags, settings, stored, dataMap, chans, pending, onceL,
          warn, logEl, nFetch, nSock, nMsgs, rafQ, pass, mjpeg, settingsWs, editor,
          toasts, renders, cause>>

\* The state as one record, so that the code's functions are operators on it.
S == [boot |-> boot, defaults |-> defaults, flags |-> flags, settings |-> settings, stored |-> stored, dataMap |-> dataMap,
      chans |-> chans, pending |-> pending, onceL |-> onceL, warn |-> warn,
      logEl |-> logEl, nFetch |-> nFetch, nSock |-> nSock, nMsgs |-> nMsgs, rafQ |-> rafQ,
      settingsWs |-> settingsWs, editor |-> editor,
      toasts |-> toasts, renders |-> renders, cause |-> cause]

Within(t) ==
  /\ t.nFetch <= limits.fetch
  /\ t.nSock <= limits.socks
  /\ t.nMsgs <= limits.msgs
  /\ \A c \in Cams : t.editor[c].arms <= limits.edits

\* A channel whose socket is closed, that has no timer and no refresh tick pending and
\* that was torn down can run no callback any more and nothing refers to it: it is
\* garbage, and its fields are reset so that states differing only in garbage are one.
Garbage(ch) ==
  ~ch.active /\ ch.ws = "closed" /\ ch.timer = 0 /\ ch.raf # "pending"

Collected(ch) ==
  IF Garbage(ch)
  THEN [ch EXCEPT !.delay = 0, !.raf = "none", !.queue = <<>>, !.logs = <<>>, !.notices = 0]
  ELSE ch

\* The listeners of a line editor whose canvas has left the document can run no
\* more: the canvas is never attached again (start() creates a new one), and the
\* window's mouseup listener returns at once unless a drag is under way. They and
\* the cleanup function that would remove them are garbage, and are reset.
Swept(ed, e) ==
  IF ed.on # 0 /\ ~ed.drawing /\ ~(e.canvasDom /\ ed.on = e.gen)
  THEN [ed EXCEPT !.on = 0, !.up = FALSE, !.cleanupRef = FALSE]
  ELSE ed

\* the callback's result u becomes the next state
Commit(u) == \E t \in {u} :
  /\ Within(t)
  /\ UNCHANGED <<buttons, limits, feeds, dataToken, pass, mjpeg>>
  /\ boot' = t.boot /\ defaults' = t.defaults
  /\ flags' = t.flags /\ settings' = t.settings /\ stored' = t.stored
  /\ dataMap' = t.dataMap
  /\ chans' = [c \in Cams |-> [k \in 1..Len(t.chans[c]) |-> Collected(t.chans[c][k])]]
  /\ pending' = t.pending /\ onceL' = t.onceL
  /\ warn' = t.warn /\ logEl' = t.logEl
  /\ nFetch' = t.nFetch /\ nSock' = t.nSock /\ nMsgs' = t.nMsgs /\ rafQ' = t.rafQ
  /\ settingsWs' = t.settingsWs
  /\ editor' = [c \in Cams |-> Swept(t.editor[c], t.dataMap[c])]
  /\ toasts' = t.toasts /\ renders' = t.renders /\ cause' = t.cause

\* a callback starts with nothing shown yet
Begin(op, by, res, cam) ==
  [S EXCEPT !.toasts = {}, !.renders = {},
            !.cause = [op |-> op, by |-> by, res |-> res, cam |-> cam, ch |-> 0]]

\* a callback of channel k of camera c
BeginCh(op, res, c, k) == [Begin(op, op, res, c) EXCEPT !.cause.ch = k]

Run(op) == Begin(op, op, "", 0)

RunOn(op, cam) == Begin(op, op, "", cam)

\* ------------------------------------------------------------------ state
NoEntry ==
  [reg |-> FALSE, token |-> NoToken, active |-> FALSE, close |-> NullClose,
   canvasDom |-> FALSE, canvasRef |-> FALSE, gen |-> 0, resizeRef |-> 0,
   winL |-> {}, loadL |-> {},
   src |-> "none", tracks |-> 0, lines |-> 0, ppe |-> 0, counts |-> 0]

PageToken == 1

\* no renderOverlay call observed yet
NoInfo == [src |-> <<>>, lines |-> <<>>, tracks |-> <<>>, ppe |-> <<>>, counts |-> FALSE]

NoPass ==
  [ran |-> FALSE, canvas |-> <<0, 0>>, info |-> NoInfo,
   flags |-> [f \in FlagNames |-> FALSE], settings |-> [n \in SettingNames |-> FALSE],
   calls |-> <<>>]

\* a page without MJPEG previews. init: initMjpegFeeds has run; imgs: the img.feed-img
\* elements in document order; reqs: the show / hide requests sent, oldest first, as
\* <<kind, image>>; last: the last event dispatched, as <<event, image>>; events: how
\* many were dispatched
NoPreviews ==
  [init |-> FALSE, imgs |-> <<>>, reqs |-> <<>>, last |-> <<"load", 0>>, events |-> 0]

\* makeSocket before its first connect(). socks: the WebSocket objects it created,
\* oldest first, each with its readyState ws and whether the interval hb of its
\* connect() call is set; timer: pending setTimeout(connect, 1000) calls; pings: probes
\* sent; last: the last probe, as <<socket whose interval fired, socket written to,
\* readyState of that socket>>
NoSettingsWs == [socks |-> <<>>, timer |-> 0, pings |-> 0, last |-> <<0, 0, "">>]

\* connect() of makeSocket, lines 427-435: the outer `ws` becomes a new socket
makeSocketConnect(w) ==
  [w EXCEPT !.socks = Append(@, [ws |-> "connecting", hb |-> FALSE])]

\* ws.onopen of socket k, line 429: hb = setInterval(...)
settingsOpen(w, k) == [w EXCEPT !.socks[k].ws = "open", !.socks[k].hb = TRUE]

\* ws.onerror, line 432: ws.close() on the outer `ws`, the socket created last
settingsError(w) ==
  [w EXCEPT !.socks[Len(w.socks)].ws = IF @ \in {"connecting", "open"} THEN "closing" ELSE @]

\* variant: the close leaves the interval running
settingsCloseKeepsInterval(w, k) ==
  [w EXCEPT !.socks[k].ws = "closed", !.timer = @ + 1]

\* ws.onclose of socket k, line 431: clearInterval(hb); setTimeout(connect, 1000)
settingsClose(w, k) ==
  [w EXCEPT !.socks[k].ws = "closed", !.socks[k].hb = FALSE, !.timer = @ + 1]

\* the interval of socket k fires, line 429: ws.send('ping') on the outer `ws`
settingsPing(w, k) ==
  [w EXCEPT !.pings = @ + 1,
            !.last = <<k, Len(w.socks), w.socks[Len(w.socks)].ws>>]

\* no PATCH sent yet
NoRequest == [line |-> <<>>, orientation |-> ""]

\* no enableLineEditor(cam) call yet. on: the canvas (by its gen) the mousedown and
\* mousemove listeners are attached to, 0 when none; up: the window's mouseup
\* listener is attached; drawing, start: the closure's variables; cleanupRef:
\* entry.lineEditorCleanup is set; arms: how many times listeners were attached; line: no variable of the code, the line the
\* editor last wrote to entry.lines[0], <<>> before the first; saving: saveLine
\* calls suspended at await fetch; sent: the body of the last PATCH;
\* nSave: PATCH requests sent
NoEditor ==
  [on |-> 0, up |-> FALSE, drawing |-> FALSE, start |-> <<0, 0>>, cleanupRef |-> FALSE,
   arms |-> 0,
   line |-> <<>>, saving |-> 0, sent |-> NoRequest, nSave |-> 0]

\* the overlay engine as loaded: nothing registered, requested or shown
FreshEngine ==
  /\ editor = [c \in Cams |-> NoEditor]
  /\ defaults = [n \in SettingNames |-> FALSE]
  /\ dataMap = [c \in Cams |-> NoEntry]
  /\ chans = [c \in Cams |-> <<>>]
  /\ pending = [c \in Cams |-> [o \in Origins |-> 0]]
  /\ warn = FALSE
  /\ logEl = <<>>
  /\ nFetch = 0 /\ nSock = 0 /\ nMsgs = 0 /\ rafQ = <<>>
  /\ toasts = {} /\ renders = {} /\ cause = [op |-> "load", by |-> "load", res |-> "", cam |-> 0, ch |-> 0]

\* the script as loaded
Fresh ==
  /\ flags = [f \in FlagNames |-> FALSE]
  /\ settings = [n \in SettingNames |-> FALSE]
  /\ FreshEngine
  /\ pass = NoPass
  /\ mjpeg = NoPreviews

\* the page as loaded, with one feed
Loaded ==
  /\ feeds = {1}
  /\ Fresh

\* init() has run: the toggle buttons are wired, the cleanup listeners armed, the
\* settings socket has opened; the store is empty
Ready ==
  /\ boot = "ready" /\ buttons = Buttons
  /\ stored = <<>> /\ onceL = 2
  /\ settingsWs = settingsOpen(makeSocketConnect(NoSettingsWs), 1)

\* a page with one feed, whose container carries no data-token; the line editor
\* attaches no listeners in this run (it is opened only on an entry that has no
\* canvas yet)
Init ==
  /\ Loaded /\ Ready
  /\ dataToken = [c \in Cams |-> NoToken]
  /\ limits = [fetch |-> MaxFetch, socks |-> MaxSocks, msgs |-> MaxMsgs, edits |-> 0]

\* the same page, for a run with many messages
InitMsg ==
  /\ Loaded /\ Ready
  /\ dataToken = [c \in Cams |-> NoToken]
  /\ limits = [fetch |-> MaxFetch, socks |-> MaxSocks, msgs |-> MaxBurst, edits |-> 0]

\* the flag sets an earlier visit may have left in the store
StoredAtLoad ==
  { <<>>, << [f \in FlagNames |-> FALSE] >>, << [f \in FlagNames |-> f = "show_lines"] >> }

\* what the config endpoint may report for the show_* settings
Configs == { [n \in SettingNames |-> FALSE], [n \in SettingNames |-> n = "show_ids"] }

\* the same page before init() is called, with two toggle buttons
InitBoot ==
  /\ Loaded
  /\ boot = "loaded" /\ buttons = {"show_ids", "show_lines"}
  /\ stored \in StoredAtLoad /\ onceL = 0
  /\ settingsWs = NoSettingsWs
  /\ dataToken = [c \in Cams |-> NoToken]
  /\ limits = [fetch |-> MaxFetch, socks |-> MaxSocks, msgs |-> 0, edits |-> 0]

\* a page with two feeds, neither container carrying a data-token
InitCams ==
  /\ feeds = Cams
  /\ Fresh /\ Ready
  /\ dataToken = [c \in Cams |-> NoToken]
  /\ limits = [fetch |-> MaxFetch, socks |-> MaxSocks, msgs |-> MaxMsgs, edits |-> 0]

\* a page with one feed opted into overlays and images that are not, every container
\* carrying a data-token; the line editor may attach its listeners
InitStray ==
  /\ Loaded /\ Ready
  /\ dataToken = [c \in Cams |-> PageToken]
  /\ limits = [fetch |-> 0, socks |-> MaxSocks, msgs |-> 0, edits |-> MaxEdits]

\* a page with one feed, whose container carries a data-token
InitChan ==
  /\ Loaded /\ Ready
  /\ dataToken = [c \in Cams |-> IF c \in feeds THEN PageToken ELSE NoToken]
  /\ limits = [fetch |-> 0, socks |-> MaxChanSocks, msgs |-> 0, edits |-> 0]

\* a page with two feeds, the first with a data-token and the second without, for a
\* run with one token request, one socket and messages that omit fields
InitApply ==
  /\ feeds = Cams
  /\ Fresh /\ Ready
  /\ dataToken = [c \in Cams |-> IF c = 1 THEN PageToken ELSE NoToken]
  /\ limits = [fetch |-> 1, socks |-> 1, msgs |-> MaxApplyMsgs, edits |-> 0]

\* the same page, for a run with the line editor
InitLine ==
  /\ Loaded /\ Ready
  /\ dataToken = [c \in Cams |-> IF c \in feeds THEN PageToken ELSE NoToken]
  /\ limits = [fetch |-> 0, socks |-> 1, msgs |-> MaxLineMsgs, edits |-> MaxEdits]

\* ------------------------------------------------- connectDetections (351-423)
Min(a, b) == IF a < b THEN a ELSE b

\* renderOverlay(ctx, canvas, info) is invoked for camera c
renderOverlay(t, c, via) == [t EXCEPT !.renders = @ \cup {<<c, via>>}]

showToast(t, msg) == [t EXCEPT !.toasts = @ \cup {msg}]

\* connect(): ws = new WebSocket(url)
connect(t, c, k) ==
  [t EXCEPT !.chans[c][k].ws = "connecting", !.nSock = @ + 1]

\* notices is no variable of the code: it counts the 'Reconnect failed' toasts the
\* channel has shown since its socket last opened (or since it was created)
NewChan(tok) ==
  [active |-> TRUE, ws |-> "closed", delay |-> BaseDelay, timer |-> 0,
   raf |-> "none", queue |-> <<>>, logs |-> <<>>, tok |-> tok, notices |-> 0]

\* the value connectDetections returns for entry.close
CloseHandle(t, c) ==
  IF t.dataMap[c].token # NoToken THEN Len(t.chans[c]) + 1 ELSE NoopClose

connectDetections(t, c) ==
  IF t.dataMap[c].token # NoToken
  THEN connect([t EXCEPT !.warn = FALSE,
                         !.chans[c] = Append(@, NewChan(t.dataMap[c].token))],
               c, Len(t.chans[c]) + 1)
  ELSE [t EXCEPT !.warn = TRUE]

\* the function connectDetections returns:
\* ()=>{active=false; if(raf) cancelAnimationFrame(raf); try{ws.close();}catch(e){}}
closeChannel(t, c, k) ==
  LET ch == t.chans[c][k] IN
  [t EXCEPT !.chans[c][k].active = FALSE,
            !.chans[c][k].raf = IF ch.raf = "pending" THEN "cancelled" ELSE ch.raf,
            !.rafQ = SelectSeq(@, LAMBDA r : r # <<c, k>>),
            !.chans[c][k].ws = IF ch.ws \in {"connecting", "open"} THEN "closing" ELSE ch.ws]

\* variant: the applied message is written to every entry
processAllEntries(t, c, k) ==
  LET ch == t.chans[c][k]
      t1 == [t EXCEPT !.chans[c][k].raf = "none"]
  IN IF ch.queue = <<>> THEN t1
     ELSE [t1 EXCEPT !.chans[c][k].queue = <<>>,
                     !.dataMap = [d \in Cams |->
                        [@[d] EXCEPT !.tracks = ch.queue[Len(ch.queue)].tracks]]]

\* variant: the tick leaves the queue as it is
processKeepsQueue(t, c, k) ==
  LET ch == t.chans[c][k]
      t1 == [t EXCEPT !.chans[c][k].raf = "none"]
  IN IF ch.queue = <<>> THEN t1
     ELSE LET msg == ch.queue[Len(ch.queue)]
              e   == t.dataMap[c]
              t2  == [t1 EXCEPT !.dataMap[c].src = IF msg.src # 0 THEN "msg" ELSE e.src,
                                !.dataMap[c].tracks = msg.tracks,
                                !.dataMap[c].lines = msg.lines,
                                !.dataMap[c].ppe = msg.ppe,
                                !.dataMap[c].counts = msg.counts]
          IN IF e.canvasRef THEN renderOverlay(t2, c, "tick") ELSE t2

\* variant: a field the message omits keeps its earlier value
processMerges(t, c, k) ==
  LET ch == t.chans[c][k]
      t1 == [t EXCEPT !.chans[c][k].raf = "none"]
      Kept(new, old) == IF new = 0 THEN old ELSE new
  IN IF ch.queue = <<>> THEN t1
     ELSE LET msg == ch.queue[Len(ch.queue)]
              e   == t.dataMap[c]
              t2  == [t1 EXCEPT !.chans[c][k].queue = <<>>,
                                !.dataMap[c].src = IF msg.src # 0 THEN "msg" ELSE e.src,
                                !.dataMap[c].tracks = Kept(msg.tracks, e.tracks),
                                !.dataMap[c].lines = Kept(msg.lines, e.lines),
                                !.dataMap[c].ppe = Kept(msg.ppe, e.ppe),
                                !.dataMap[c].counts = Kept(msg.counts, e.counts)]
          IN IF e.canvasRef THEN renderOverlay(t2, c, "tick") ELSE t2

\* process(): the refresh-tick callback
process(t, c, k) ==
  LET ch == t.chans[c][k]
      t1 == [t EXCEPT !.chans[c][k].raf = "none"]
  IN IF ch.queue = <<>> THEN t1
     ELSE LET msg == ch.queue[Len(ch.queue)]
              e   == t.dataMap[c]
              t2  == [t1 EXCEPT !.chans[c][k].queue = <<>>,
                                !.dataMap[c].src = IF msg.src # 0 THEN "msg" ELSE e.src,
                                !.dataMap[c].tracks = msg.tracks,
                                !.dataMap[c].lines = msg.lines,
                                !.dataMap[c].ppe = msg.ppe,
                                !.dataMap[c].counts = msg.counts]
          IN IF e.canvasRef THEN renderOverlay(t2, c, "tick") ELSE t2

enqueue(t, c, k, msg) ==
  LET ch == t.chans[c][k] IN
  [t EXCEPT !.chans[c][k].queue = Append(@, msg),
            !.chans[c][k].raf = IF ch.raf = "none" THEN "pending" ELSE ch.raf,
            !.rafQ = IF ch.raf = "none" THEN Append(@, <<c, k>>) ELSE @]

\* variant: a full log keeps its oldest lines
onmessageKeepsOldest(t, c, k, m) ==
  LET ch    == t.chans[c][k]
      logs1 == IF Len(ch.logs) >= LogCap THEN ch.logs ELSE <<m>> \o ch.logs
      t1    == [t EXCEPT !.chans[c][k].logs = logs1, !.logEl = logs1, !.nMsgs = @ + 1]
  IN IF m.kind = "data" THEN enqueue([t1 EXCEPT !.warn = FALSE], c, k, m) ELSE t1

\* variant: an unauthorized payload is treated as a detection payload
onmessageEnqueuesAll(t, c, k, m) ==
  LET t1 == [t EXCEPT !.chans[c][k].logs = <<m>> \o @, !.nMsgs = @ + 1]
  IN IF m.kind = "garbage" THEN t1 ELSE enqueue([t1 EXCEPT !.warn = FALSE], c, k, m)

\* variant: a message that does not parse closes the socket
onmessageClosesOnGarbage(t, c, k, m) ==
  LET t1 == [t EXCEPT !.chans[c][k].logs = <<m>> \o @, !.nMsgs = @ + 1]
  IN IF m.kind = "data" THEN enqueue([t1 EXCEPT !.warn = FALSE], c, k, m)
     ELSE [t1 EXCEPT !.chans[c][k].ws = "closing"]

\* variant: an unauthorized message also takes the entry down
onmessageDeactivates(t, c, k, m) ==
  LET t1 == [t EXCEPT !.nMsgs = @ + 1]
  IN IF m.kind = "unauthorized"
     THEN [showToast(t1, "Auth failed") EXCEPT !.warn = TRUE, !.chans[c][k].ws = "closing",
                                               !.dataMap[c].active = FALSE]
     ELSE t1

onmessage(t, c, k, m) ==
  LET ch    == t.chans[c][k]
      all   == <<m>> \o ch.logs
      logs1 == IF Len(all) > LogCap THEN SubSeq(all, 1, LogCap) ELSE all
      t1    == [t EXCEPT !.chans[c][k].logs = logs1, !.logEl = logs1, !.nMsgs = @ + 1]
  IN CASE m.kind = "garbage" -> t1
       [] m.kind = "unauthorized" ->
            [showToast(t1, "Auth failed") EXCEPT !.warn = TRUE, !.chans[c][k].ws = "closing"]
       [] OTHER -> enqueue([t1 EXCEPT !.warn = FALSE], c, k, m)

\* variant: an open leaves the delay as it is
onopenKeepsDelay(t, c, k) == [t EXCEPT !.chans[c][k].ws = "open", !.chans[c][k].notices = 0]

onopen(t, c, k) ==
  [t EXCEPT !.chans[c][k].ws = "open", !.chans[c][k].delay = BaseDelay,
            !.chans[c][k].notices = 0]

onerror(t, c, k) == showToast(t, "Socket error")

\* variant: a close with code 1008 is final
oncloseGivesUpOnAuth(t, c, k, code) ==
  LET ch == t.chans[c][k]
      t1 == [t EXCEPT !.chans[c][k].ws = "closed"]
  IN IF code = 1008 THEN showToast(t1, "Auth failed")
     ELSE IF ch.active
          THEN [t1 EXCEPT !.chans[c][k].timer = ch.delay,
                          !.chans[c][k].delay = Min(ch.delay * 2, MaxDelay)]
          ELSE t1

\* variant: the notice is shown at the close that brings the delay to its cap
oncloseNoticeEarly(t, c, k, code) ==
  LET ch == t.chans[c][k]
      t1 == [t EXCEPT !.chans[c][k].ws = "closed"]
      t2 == IF code = 1008 THEN showToast(t1, "Auth failed") ELSE t1
      t3 == IF ch.delay * 2 >= MaxDelay THEN showToast(t2, "Reconnect failed") ELSE t2
  IN IF ch.active
     THEN [t3 EXCEPT !.chans[c][k].timer = ch.delay,
                     !.chans[c][k].delay = Min(ch.delay * 2, MaxDelay)]
     ELSE t2

onclose(t, c, k, code) ==
  LET ch == t.chans[c][k]
      t1 == [t EXCEPT !.chans[c][k].ws = "closed"]
      t2 == IF code = 1008 THEN showToast(t1, "Auth failed") ELSE t1
      t3 == IF ch.delay >= MaxDelay
            THEN [showToast(t2, "Reconnect failed") EXCEPT !.chans[c][k].notices = @ + 1]
            ELSE t2
  IN IF ch.active
     THEN [t3 EXCEPT !.chans[c][k].timer = ch.delay,
                     !.chans[c][k].delay = Min(ch.delay * 2, MaxDelay)]
     ELSE t2

\* ------------------------------------------------------ entry.start / stop
AnyFlag(t) == \E f \in FlagNames : t.flags[f]

\* start(), lines 110-144: what runs once a token question is settled
startRest(t, c, ic) ==
  LET e  == t.dataMap[c]
      g  == e.gen + 1
      t1 == [t EXCEPT !.warn = FALSE,
                      !.dataMap[c].canvasDom = TRUE,
                      !.dataMap[c].canvasRef = TRUE,
                      !.dataMap[c].gen = g,
                      !.dataMap[c].resizeRef = g,
                      !.dataMap[c].loadL = @ \cup {g}]
      \* if(img.complete) onload()
      t2 == IF ic
            THEN renderOverlay([t1 EXCEPT !.dataMap[c].src = "img"], c, "load")
            ELSE t1
      t3 == [t2 EXCEPT !.dataMap[c].winL = @ \cup {g},
                       !.dataMap[c].active = TRUE,
                       !.dataMap[c].close = CloseHandle(t2, c)]
  IN connectDetections(t3, c)

\* variant: start() without its guard
startUnguarded(t, c, origin, ic) ==
  IF t.dataMap[c].token = NoToken
  THEN [t EXCEPT !.pending[c][origin] = @ + 1, !.nFetch = @ + 1]
  ELSE startRest(t, c, ic)

\* start(), lines 85-109: the guard and the token request
start(t, c, origin, ic) ==
  LET e == t.dataMap[c] IN
  IF e.active THEN t
  ELSE IF e.token = NoToken
       THEN [t EXCEPT !.pending[c][origin] = @ + 1, !.nFetch = @ + 1]
       ELSE startRest(t, c, ic)

\* variant: a failed token request does not end start()
tokenResponseIgnoresFailure(t, c, outcome, tok, ic) ==
  IF outcome = "ok"
  THEN startRest([t EXCEPT !.dataMap[c].token = tok, !.warn = FALSE], c, ic)
  ELSE startRest([t EXCEPT !.warn = TRUE], c, ic)

\* the continuation of start() after await fetch('/api/token')
tokenResponse(t, c, outcome, tok, ic) ==
  CASE outcome = "ok"        -> startRest([t EXCEPT !.dataMap[c].token = tok, !.warn = FALSE], c, ic)
    [] outcome = "okNoToken" -> startRest([t EXCEPT !.dataMap[c].token = NoToken, !.warn = FALSE], c, ic)
    [] OTHER                 -> [t EXCEPT !.warn = TRUE]

\* variant: stop() that does not call entry.close
stopWithoutClose(t, c) ==
  IF ~t.dataMap[c].active THEN t
  ELSE [t EXCEPT !.dataMap[c].active = FALSE,
                 !.dataMap[c].close = NullClose,
                 !.dataMap[c].canvasDom = FALSE,
                 !.dataMap[c].winL = @ \ {t.dataMap[c].resizeRef},
                 !.dataMap[c].tracks = 0, !.dataMap[c].lines = 0,
                 !.dataMap[c].ppe = 0, !.dataMap[c].counts = 0]

stop(t, c) ==
  LET e  == t.dataMap[c]
      t1 == [t EXCEPT !.dataMap[c].active = FALSE]
      t2 == IF e.close > 0 THEN closeChannel(t1, c, e.close) ELSE t1
  IN IF ~e.active THEN t
     ELSE [t2 EXCEPT !.dataMap[c].close = NullClose,
                     !.dataMap[c].canvasDom = FALSE,
                     !.dataMap[c].winL = @ \ {e.resizeRef},
                     !.dataMap[c].tracks = 0,
                     !.dataMap[c].lines = 0,
                     !.dataMap[c].ppe = 0,
                     !.dataMap[c].counts = 0]

\* a feed image: cam is its data-cam (NoCam when it has none), overlay tells whether
\* its container carries data-overlay="true"
NoCam == 0

Feed(c) == [cam |-> c, overlay |-> TRUE]

\* variant: setupFeed without the opt-in check
setupFeedIgnoresOptIn(t, img, ic) ==
  IF img.cam = NoCam THEN t
  ELSE LET t1 == [t EXCEPT !.dataMap[img.cam].reg = TRUE,
                           !.dataMap[img.cam].token = dataToken[img.cam]]
       IN IF AnyFlag(t1) THEN start(t1, img.cam, "setupFeed", ic) ELSE t1

\* setupFeed(img)
setupFeed(t, img, ic) ==
  IF ~img.overlay \/ img.cam = NoCam THEN t
  ELSE LET c  == img.cam
           t1 == [t EXCEPT !.dataMap[c].reg = TRUE, !.dataMap[c].token = dataToken[c]]
       IN IF AnyFlag(t1) THEN start(t1, c, "setupFeed", ic) ELSE t1

\* applyOverlay(): the forEach over the feeds, in document order
RECURSIVE applyEntries(_, _, _)
applyEntries(t, c, ic) ==
  IF c \notin Cams THEN t
  ELSE LET t1 == IF ~t.dataMap[c].reg THEN t
                 ELSE IF AnyFlag(t) THEN start(t, c, "applyOverlay", ic[c]) ELSE stop(t, c)
       IN applyEntries(t1, c + 1, ic)

applyOverlay(t, ic) ==
  applyEntries([t EXCEPT !.settings = [n \in SettingNames |-> t.flags[n]]], 1, ic)

\* variant: the click listener stores the flags before it flips one
toggleClickStoresFirst(t, f, ic) ==
  applyOverlay([t EXCEPT !.flags = [t.flags EXCEPT ![f] = ~@], !.stored = <<t.flags>>], ic)

\* the toggle button's click listener (initToggle)
toggleClick(t, f, ic) ==
  LET fl == [t.flags EXCEPT ![f] = ~@]
  IN applyOverlay([t EXCEPT !.flags = fl, !.stored = <<fl>>], ic)

\* init(), lines 475-476: feeds.forEach(setupFeed), up to await loadSettings()
RECURSIVE setupFeeds(_, _, _)
setupFeeds(t, c, ic) ==
  IF c \notin Cams THEN t
  ELSE setupFeeds(IF c \in feeds THEN setupFeed(t, Feed(c), ic[c]) ELSE t, c + 1, ic)

pageInit(t, ic) == [setupFeeds(t, 1, ic) EXCEPT !.boot = "config"]

\* loadSettings() after its fetch: Object.assign(settings, cfg); defaults.x = settings.x
loadSettings(t, ok, cfg) ==
  IF ok THEN [t EXCEPT !.settings = cfg, !.defaults = cfg] ELSE t

\* initToggle(), lines 455-461: the flags are the flag literal overlaid by the store
initToggle(t) ==
  IF buttons = {} \/ t.stored = <<>> THEN t ELSE [t EXCEPT !.flags = t.stored[1]]

\* initSettingsSocket(), lines 439-452: makeSocket('/ws/config', ...) connects
initSettingsSocket(t) == [t EXCEPT !.settingsWs = makeSocketConnect(@)]

\* init() after await loadSettings(), lines 478-484
configResponse(t, ok, cfg, ic) ==
  [initSettingsSocket(applyOverlay(initToggle(loadSettings(t, ok, cfg)), ic))
     EXCEPT !.onceL = 2, !.boot = "ready"]

\* enableLineEditor(cam), lines 300-317: the settings write, the start() call, and
\* the listeners on the canvas entry.canvas refers to once start() has returned. The
\* closures of several calls for one camera are one closure here; that is exact as
\* long as no call falls between a mousedown and its mouseup.
enableLineEditor(t, c, ic) ==
  LET t1 == start([t EXCEPT !.settings["show_lines"] = TRUE], c, "lineEditor", ic)
  IN IF ~t1.dataMap[c].canvasRef THEN t1
     ELSE [t1 EXCEPT !.editor[c].on = t1.dataMap[c].gen,
                     !.editor[c].up = TRUE,
                     !.editor[c].cleanupRef = TRUE,
                     !.editor[c].arms = @ + 1]

\* the value of entry.lines once the editor has written entry.lines[0]: the first
\* line is editor[cam].line (what follows it, if anything, is not tracked)
DrawnLines == 2

\* the first line of the lines a detection message carries
MsgLine == <<0, 500, 1000, 500>>

\* entry.lines[0]
FirstLine(t, c) ==
  IF t.dataMap[c].lines = DrawnLines THEN t.editor[c].line ELSE MsgLine

\* onDown, line 309
onDown(t, c, p) ==
  [t EXCEPT !.editor[c].drawing = TRUE, !.editor[c].start = p,
            !.editor[c].line = <<p[1], p[2], p[1], p[2]>>,
            !.dataMap[c].lines = DrawnLines]

\* onMove, line 310
onMove(t, c, p) ==
  LET ed == t.editor[c] IN
  IF ~ed.drawing THEN t
  ELSE [t EXCEPT !.editor[c].line = <<ed.start[1], ed.start[2], p[1], p[2]>>,
                 !.dataMap[c].lines = DrawnLines]

\* cleanup, line 312
lineEditorCleanup(t, c) == [t EXCEPT !.editor[c].on = 0, !.editor[c].up = FALSE]

\* onUp, line 311
onUp(t, c, p) ==
  LET ed == t.editor[c] IN
  IF ~ed.drawing THEN t
  ELSE lineEditorCleanup(
         [t EXCEPT !.editor[c].drawing = FALSE,
                   !.editor[c].line = <<ed.start[1], ed.start[2], p[1], p[2]>>,
                   !.dataMap[c].lines = DrawnLines], c)

Abs(x) == IF x < 0 THEN -x ELSE x

\* variant: a line as wide as it is high is vertical
saveLineStrict(t, c) ==
  IF ~t.dataMap[c].reg \/ t.dataMap[c].lines = 0 THEN t
  ELSE LET ln == FirstLine(t, c)
           o  == IF Abs(ln[3] - ln[1]) > Abs(ln[4] - ln[2]) THEN "horizontal" ELSE "vertical"
       IN [t EXCEPT !.editor[c].sent = [line |-> ln, orientation |-> o],
                    !.editor[c].nSave = @ + 1, !.editor[c].saving = @ + 1]

\* saveLine(cam), lines 319-324: up to the await
saveLine(t, c) ==
  IF ~t.dataMap[c].reg \/ t.dataMap[c].lines = 0 THEN t
  ELSE LET ln == FirstLine(t, c)
           o  == IF Abs(ln[3] - ln[1]) >= Abs(ln[4] - ln[2]) THEN "horizontal" ELSE "vertical"
       IN [t EXCEPT !.editor[c].sent = [line |-> ln, orientation |-> o],
                    !.editor[c].nSave = @ + 1, !.editor[c].saving = @ + 1]

\* saveLine(cam), line 325: after the await; a fetch that rejects ends the call
saveLineResponse(t, c, ok) ==
  LET t1 == [t EXCEPT !.editor[c].saving = @ - 1]
  IN IF ok /\ t1.editor[c].cleanupRef THEN lineEditorCleanup(t1, c) ELSE t1

\* init()'s cleanup listener: every entry is stopped
RECURSIVE cleanupEntries(_, _)
cleanupEntries(t, c) ==
  IF c \notin Cams THEN t
  ELSE cleanupEntries(IF t.dataMap[c].reg THEN stop(t, c) ELSE t, c + 1)

\* img 'load': each onload listener sets entry.src and runs its resize()
imgLoad(t, c) ==
  IF t.dataMap[c].loadL = {} THEN t
  ELSE renderOverlay([t EXCEPT !.dataMap[c].src = "img"], c, "load")

\* window 'resize': every attached resize() closure renders
windowResize(t) ==
  [t EXCEPT !.renders = @ \cup {<<c, "resize">> : c \in {d \in Cams : t.dataMap[d].winL # {}}}]

\* variant: the push renders every registered camera
settingsPushRendersAll(t, d) ==
  [t EXCEPT !.settings = [n \in SettingNames |-> IF n \in DOMAIN d THEN d[n] ELSE @[n]],
            !.renders = @ \cup {<<c, "push">> : c \in {x \in Cams : t.dataMap[x].reg}}]

\* settings push: Object.assign(settings, msg.data), then a render per canvas.overlay
settingsPush(t, d) ==
  [t EXCEPT !.settings = [n \in SettingNames |-> IF n \in DOMAIN d THEN d[n] ELSE @[n]],
            !.renders = @ \cup {<<c, "push">> : c \in {x \in Cams : t.dataMap[x].canvasDom}}]

\* ------------------------------------------- drawing (lines 43-68, 179-298)
\* Coordinates are numbers in thousandths (a normalized 0.5 is 500, a pixel 10 is
\* 10000); image, source and canvas sizes are whole pixels. A value that is not
\* finite (NaN, an infinity) is NaN here: the code only asks whether it is finite.
\* n whole pixels
Px(n) == n * 1000

Num(v) == [fin |-> TRUE, val |-> v]

NaN == [fin |-> FALSE, val |-> 0]

\* the literal 1.01 of scaleBox
NormMax == 1010

\* v <= 1.01 (false for NaN)
AtMostNormMax(v) == v.fin /\ v.val <= NormMax

\* x * a
Times(x, a) == IF x.fin THEN Num(x.val * a) ELSE NaN

\* x * a / b
TimesOver(x, a, b) == IF x.fin /\ b # 0 THEN Num((x.val * a) \div b) ELSE NaN

normToDisplay(x, y, imgW, imgH) == <<x * imgW, y * imgH>>

pixToDisplay(x, y, srcW, srcH, imgW, imgH) == <<(x * imgW) \div srcW, (y * imgH) \div srcH>>

\* what scaleBox returns for a box it rejects
NullBox == <<>>

\* variant: a component equal to 1.01 already counts as source pixels
scaleBoxStrict(box, srcW, srcH, imgW, imgH) ==
  IF Len(box) < 4 THEN NullBox
  ELSE LET b == IF \A i \in 1..4 : box[i].fin /\ box[i].val < NormMax
                THEN <<Times(box[1], imgW), Times(box[2], imgH),
                       Times(box[3], imgW), Times(box[4], imgH)>>
                ELSE <<TimesOver(box[1], imgW, srcW), TimesOver(box[2], imgH, srcH),
                       TimesOver(box[3], imgW, srcW), TimesOver(box[4], imgH, srcH)>>
       IN IF (\E i \in 1..4 : ~b[i].fin) \/ b[3].val <= 0 \/ b[4].val <= 0
          THEN NullBox
          ELSE [i \in 1..4 |-> b[i].val]

\* variant: only a negative width or height is rejected
scaleBoxKeepsEmpty(box, srcW, srcH, imgW, imgH) ==
  IF Len(box) < 4 THEN NullBox
  ELSE LET b == IF \A i \in 1..4 : AtMostNormMax(box[i])
                THEN <<Times(box[1], imgW), Times(box[2], imgH),
                       Times(box[3], imgW), Times(box[4], imgH)>>
                ELSE <<TimesOver(box[1], imgW, srcW), TimesOver(box[2], imgH, srcH),
                       TimesOver(box[3], imgW, srcW), TimesOver(box[4], imgH, srcH)>>
       IN IF (\E i \in 1..4 : ~b[i].fin) \/ b[3].val < 0 \/ b[4].val < 0
          THEN NullBox
          ELSE [i \in 1..4 |-> b[i].val]

\* scaleBox(box, srcW, srcH, imgW, imgH); a box that is no array is the empty box
scaleBox(box, srcW, srcH, imgW, imgH) ==
  IF Len(box) < 4 THEN NullBox
  ELSE LET b == IF \A i \in 1..4 : AtMostNormMax(box[i])
                THEN <<Times(box[1], imgW), Times(box[2], imgH),
                       Times(box[3], imgW), Times(box[4], imgH)>>
                ELSE <<TimesOver(box[1], imgW, srcW), TimesOver(box[2], imgH, srcH),
                       TimesOver(box[3], imgW, srcW), TimesOver(box[4], imgH, srcH)>>
       IN IF (\E i \in 1..4 : ~b[i].fin) \/ b[3].val <= 0 \/ b[4].val <= 0
          THEN NullBox
          ELSE [i \in 1..4 |-> b[i].val]

\* one call on the 2d context: style is strokeStyle for strokes and fillStyle for
\* text; by tells which part of the pass made the call (a track by its id, a PPE
\* item or a line by its position)
Call(fn, args, style, text, by) ==
  [fn |-> fn, args |-> args, style |-> style, text |-> text, by |-> by]

RECURSIVE Flat(_)
Flat(ss) == IF ss = <<>> THEN <<>> ELSE Head(ss) \o Flat(Tail(ss))

\* lines 184-189 with devicePixelRatio 1: the size of the image as displayed in the
\* canvas and its offsets (thousandths)
Displayed(canvas, src) ==
  LET w == canvas[1]
      h == canvas[2]
      byWidth == w * src[2] <= h * src[1]
      imgW == IF byWidth THEN w ELSE (src[1] * h) \div src[2]
      imgH == IF byWidth THEN (src[2] * w) \div src[1] ELSE h
  IN [imgW |-> imgW, imgH |-> imgH,
      offX |-> Px(w - imgW) \div 2, offY |-> Px(h - imgH) \div 2]

\* lines 196-206: the configured lines
lineCalls(lines, d) ==
  Flat([i \in 1..Len(lines) |->
    LET p1 == normToDisplay(lines[i][1], lines[i][2], d.imgW, d.imgH)
        p2 == normToDisplay(lines[i][3], lines[i][4], d.imgW, d.imgH)
    IN << Call("beginPath", <<>>, "", "", <<"line", i>>),
          Call("moveTo", <<d.offX + p1[1], d.offY + p1[2]>>, "", "", <<"line", i>>),
          Call("lineTo", <<d.offX + p2[1], d.offY + p2[2]>>, "", "", <<"line", i>>),
          Call("stroke", <<>>, "red", "", <<"line", i>>) >>])

\* variant: faces follow the person flag
ShownFacesWithPersons(t, fl) ==
  CASE t.label = "person"  -> fl["show_person"]
    [] t.label = "vehicle" -> fl["show_vehicle"]
    [] t.label = "face"    -> fl["show_person"]
    [] OTHER               -> TRUE

\* lines 209-215: the category filter
Shown(t, fl) ==
  CASE t.label = "person"  -> fl["show_person"]
    [] t.label = "vehicle" -> fl["show_vehicle"]
    [] t.label = "face"    -> fl["show_faces"]
    [] OTHER               -> TRUE

\* variant: a trail point on the line counts as a crossing
crossColorOnLine(t, lines, src) ==
  IF lines = <<>> \/ Len(t.trail) < 2 THEN ""
  ELSE LET ln == lines[1]
           p1 == t.trail[Len(t.trail) - 1]
           p2 == t.trail[Len(t.trail)]
       IN IF ln[1] = ln[3]
          THEN IF (p1[1] - ln[1] * src[1]) * (p2[1] - ln[1] * src[1]) <= 0
               THEN (IF p2[1] > p1[1] THEN "green" ELSE "red")
               ELSE ""
          ELSE IF ln[2] = ln[4]
               THEN IF (p1[2] - ln[2] * src[2]) * (p2[2] - ln[2] * src[2]) <= 0
                    THEN (IF p2[2] > p1[2] THEN "green" ELSE "red")
                    ELSE ""
               ELSE ""

\* variant: the line is tested for horizontal first
crossColorHorizontalFirst(t, lines, src) ==
  IF lines = <<>> \/ Len(t.trail) < 2 THEN ""
  ELSE LET ln == lines[1]
           p1 == t.trail[Len(t.trail) - 1]
           p2 == t.trail[Len(t.trail)]
       IN IF ln[2] = ln[4]
          THEN LET ly == ln[2] * src[2]
               IN IF (p1[2] - ly) * (p2[2] - ly) < 0
                  THEN (IF p2[2] > p1[2] THEN "green" ELSE "red")
                  ELSE ""
          ELSE IF ln[1] = ln[3]
               THEN LET lx == ln[1] * src[1]
                    IN IF (p1[1] - lx) * (p2[1] - lx) < 0
                       THEN (IF p2[1] > p1[1] THEN "green" ELSE "red")
                       ELSE ""
               ELSE ""

\* lines 219-238: the colour of a track that crossed the first line, "" for null
crossColor(t, lines, src) ==
  IF lines = <<>> \/ Len(t.trail) < 2 THEN ""
  ELSE LET ln == lines[1]
           p1 == t.trail[Len(t.trail) - 1]
           p2 == t.trail[Len(t.trail)]
       IN IF ln[1] = ln[3]
          THEN LET lx == ln[1] * src[1]
               IN IF (p1[1] - lx) * (p2[1] - lx) < 0
                  THEN (IF p2[1] > p1[1] THEN "green" ELSE "red")
                  ELSE ""
          ELSE IF ln[2] = ln[4]
               THEN LET ly == ln[2] * src[2]
                    IN IF (p1[2] - ly) * (p2[2] - ly) < 0
                       THEN (IF p2[2] > p1[2] THEN "green" ELSE "red")
                       ELSE ""
               ELSE ""

\* lines 216-265: the body of tracks.forEach
trackCalls(t, lines, src, d, st) ==
  LET b  == scaleBox(t.box, src[1], src[2], d.imgW, d.imgH)
      cc == crossColor(t, lines, src)
      fb == scaleBox(t.face, src[1], src[2], d.imgW, d.imgH)
      seg(i) == LET q1 == pixToDisplay(t.trail[i][1], t.trail[i][2], src[1], src[2], d.imgW, d.imgH)
                    q2 == pixToDisplay(t.trail[i+1][1], t.trail[i+1][2], src[1], src[2], d.imgW, d.imgH)
                IN << Call("moveTo", <<d.offX + q1[1], d.offY + q1[2]>>, "", "", <<"trail", t.id>>),
                      Call("lineTo", <<d.offX + q2[1], d.offY + q2[2]>>, "", "", <<"trail", t.id>>) >>
  IN IF b = NullBox THEN <<>>
     ELSE << Call("strokeRect", <<d.offX + b[1], d.offY + b[2], b[3], b[4]>>,
                  IF cc = "" THEN "yellow" ELSE cc, "", <<"track", t.id>>) >>
          \o (IF st["show_face_boxes"] /\ t.face # <<>> /\ fb # NullBox
              THEN << Call("strokeRect", <<d.offX + fb[1], d.offY + fb[2], fb[3], fb[4]>>,
                           "orange", "", <<"face", t.id>>) >>
              ELSE <<>>)
          \o (IF st["show_track_lines"]
              THEN << Call("beginPath", <<>>, "", "", <<"trail", t.id>>) >>
                   \o Flat([i \in 1..(Len(t.trail) - 1) |-> seg(i)])
                   \o << Call("stroke", <<>>, IF cc = "" THEN "red" ELSE cc, "", <<"trail", t.id>>) >>
              ELSE <<>>)
          \o (IF st["show_ids"]
              THEN << Call("fillText", <<d.offX + b[1], d.offY + b[2] - Px(4)>>,
                           "yellow", t.label, <<"label", t.id>>) >>
              ELSE <<>>)

PpeColor(type) ==
  CASE type = "helmet" -> "lime"
    [] type = "vest"   -> "cyan"
    [] OTHER           -> "magenta"

\* lines 267-282: the body of info.ppe.forEach; a score that is no number is -1
ppeCalls(p, i, src, d) ==
  LET b == scaleBox(p.box, src[1], src[2], d.imgW, d.imgH)
  IN IF b = NullBox THEN <<>>
     ELSE << Call("strokeRect", <<d.offX + b[1], d.offY + b[2], b[3], b[4]>>,
                  PpeColor(p.type), "", <<"ppe", i>>) >>
          \o (IF p.score >= 0
              THEN << Call("fillText", <<d.offX + b[1] + Px(2), d.offY + b[2] + Px(10)>>,
                           PpeColor(p.type), "score", <<"score", i>>) >>
              ELSE <<>>)

\* lines 283-292: the three counters
countCalls(info, st) ==
  IF info.counts /\ st["show_counts"]
  THEN [i \in 1..3 |-> Call("fillText", <<Px(4), Px(16 * i)>>, "white",
                             <<"Entered", "Exited", "Inside">>[i], <<"count", i>>)]
  ELSE <<>>

\* renderOverlay(ctx, canvas, info): the calls it makes on ctx, given the overlay
\* flags fl and the settings st; an info without src is src = <<>>
renderOverlayCalls(canvas, info, fl, st) ==
  IF info.src = <<>> THEN <<>>
  ELSE LET d      == Displayed(canvas, info.src)
           tracks == SelectSeq(info.tracks, LAMBDA t : Shown(t, fl))
       IN (IF st["show_lines"] THEN lineCalls(info.lines, d) ELSE <<>>)
          \o Flat([i \in 1..Len(tracks) |-> trackCalls(tracks[i], info.lines, info.src, d, st)])
          \o Flat([i \in 1..Len(info.ppe) |-> ppeCalls(info.ppe[i], i, info.src, d)])
          \o countCalls(info, st)

\* --------------------------------------------- static/js/mjpeg_feed.js (1-45)
\* a feed image: cam is its data-cam (NoCam when absent); modal: it is inside a .modal;
\* src: "none" (no src attribute), "other" (an address set by the markup), "mjpeg"
\* (/api/cameras/<cam>/mjpeg); opened: it is in the set `opened`; wired: its modal has
\* the shown / hidden listeners; armed: its once-only beforeunload listener is pending
Img(cam, modal, src) ==
  [cam |-> cam, modal |-> modal, src |-> src, opened |-> FALSE, wired |-> FALSE, armed |-> FALSE]

\* the page of the preview study: two modal previews of cameras 1 and 2, the second
\* with an address in its markup, a modal image without data-cam and with an address
\* in its markup, and an inline feed of camera 3
PreviewImgs ==
  << Img(1, TRUE, "none"), Img(2, TRUE, "other"), Img(NoCam, TRUE, "other"),
     Img(3, FALSE, "none") >>

\* variant: openFeed without its guard
openFeedAgain(m, i) ==
  [m EXCEPT !.imgs[i].opened = TRUE,
            !.reqs = Append(@, <<"show", i>>),
            !.imgs[i].src = "mjpeg"]

\* openFeed(img), lines 5-11
openFeed(m, i) ==
  IF m.imgs[i].cam = NoCam \/ m.imgs[i].opened THEN m
  ELSE [m EXCEPT !.imgs[i].opened = TRUE,
                 !.reqs = Append(@, <<"show", i>>),
                 !.imgs[i].src = "mjpeg"]

\* closeFeed(img), lines 13-22
closeFeed(m, i) ==
  IF m.imgs[i].cam = NoCam \/ ~m.imgs[i].opened THEN m
  ELSE [m EXCEPT !.imgs[i].opened = FALSE,
                 !.imgs[i].src = "none",
                 !.reqs = Append(@, <<"hide", i>>)]

\* initMjpegFeeds(root), lines 24-35: the forEach over the images from image i on
RECURSIVE initMjpegFeeds(_, _)
initMjpegFeeds(m, i) ==
  IF i > Len(m.imgs) THEN [m EXCEPT !.init = TRUE]
  ELSE initMjpegFeeds(IF m.imgs[i].modal
                      THEN [m EXCEPT !.imgs[i].wired = TRUE]
                      ELSE [openFeed(m, i) EXCEPT !.imgs[i].armed = TRUE],
                      i + 1)

\* the once-only beforeunload listeners, in the order they were added
RECURSIVE beforeUnload(_, _)
beforeUnload(m, i) ==
  IF i > Len(m.imgs) THEN m
  ELSE beforeUnload(IF m.imgs[i].armed
                    THEN [closeFeed(m, i) EXCEPT !.imgs[i].armed = FALSE]
                    ELSE m,
                    i + 1)

\* an event is dispatched
Dispatched(m, ev, i) == [m EXCEPT !.last = <<ev, i>>, !.events = @ + 1]

\* the page of the preview study as loaded, before the script runs
InitMjpeg ==
  /\ feeds = {} /\ FreshEngine
  /\ boot = "ready" /\ buttons = Buttons
  /\ stored = <<>> /\ onceL = 0
  /\ settingsWs = NoSettingsWs
  /\ flags = [f \in FlagNames |-> FALSE]
  /\ settings = [n \in SettingNames |-> FALSE]
  /\ dataToken = [c \in Cams |-> NoToken]
  /\ limits = [fetch |-> 0, socks |-> 0, msgs |-> 0, edits |-> 0]
  /\ pass = NoPass
  /\ mjpeg = [NoPreviews EXCEPT !.imgs = PreviewImgs]

\* ------------------------------------------------ fixture of the drawing study
Box(x, y, w, h) == <<Num(x), Num(y), Num(w), Num(h)>>

\* the box of the tests, [10,10,10,10]
PixBox == Box(Px(10), Px(10), Px(10), Px(10))

Boxes ==
  { PixBox,
    Box(500, 500, 500, 500),                        \* normalized
    Box(0, 0, 1000, 1000),                          \* the whole image
    Box(1010, 1010, 1010, 1010),                    \* every component 1.01
    Box(1010, 500, 500, 500),
    Box(500, 500, 1020, 500),                       \* one component just above 1.01
    Box(1020, 0, 500, 500),
    Box(Px(10), Px(10), 0, Px(10)),        \* no width
    Box(Px(10), Px(10), Px(10), -Px(10)),  \* negative height
    Box(500, 500, -500, 500),
    <<Num(Px(10)), Num(Px(10)), NaN, Num(Px(10))>>,  \* a component that is no number
    <<NaN, Num(500), Num(500), Num(500)>>,
    <<Num(Px(10)), Num(Px(10))>>,             \* too short
    <<>> }                                          \* no array

Sources  == { <<100, 100>>, <<200, 200>>, <<200, 100>> }
Canvases == { <<100, 100>>, <<200, 100>> }

Ppe(type, box) == [type |-> type, box |-> box, score |-> -1]

Track(id, label, box) == [id |-> id, label |-> label, box |-> box, trail |-> <<>>, face |-> <<>>]

\* PPE lists: empty, one item, and an item before or after a valid one
PpeLists ==
  { <<>>,
    << [type |-> "helmet", box |-> PixBox, score |-> 90],
       Ppe("vest_jacket", Box(Px(30), Px(30), Px(10), Px(10))),
       Ppe("vest", Box(Px(50), Px(50), Px(10), Px(10))) >> }
  \cup { <<Ppe("helmet", b)>> : b \in Boxes }
  \cup { <<Ppe("helmet", b), Ppe("vest", PixBox)>> : b \in Boxes }
  \cup { <<Ppe("vest", PixBox), Ppe("helmet", b)>> : b \in Boxes }

\* track lists with one box each, and a track with a face box
BoxTracks ==
  { <<Track(1, "p", b), Track(2, "", PixBox)>> : b \in Boxes }
  \cup { << [Track(1, "face", PixBox) EXCEPT !.face = b] >> : b \in Boxes }

\* trail points (source pixels) around the centre of a 100 x 100 source
TrailPoints == { <<Px(40), Px(60)>>, <<Px(50), Px(50)>>,
                 <<Px(60), Px(40)>>, <<Px(40), Px(40)>> }

Trails ==
  { <<>> } \cup { <<p>> : p \in TrailPoints }
  \cup { <<p, q>> : p \in TrailPoints, q \in TrailPoints }
  \cup { << <<Px(60), Px(40)>>, p, <<Px(50), Px(50)>> >> : p \in TrailPoints }

\* configured lines (normalized): none, vertical, horizontal, diagonal, a diagonal
\* followed by a vertical one, a line of length zero (its x's and its y's are
\* equal), and a vertical followed by a horizontal one
LineLists ==
  { <<>>, << <<500, 0, 500, 1000>> >>, << <<0, 500, 1000, 500>> >>,
    << <<0, 0, 1000, 1000>> >>,
    << <<0, 0, 1000, 1000>>, <<500, 0, 500, 1000>> >>,
    << <<500, 500, 500, 500>> >>,
    << <<500, 0, 500, 1000>>, <<0, 500, 1000, 500>> >> }

\* the three tracks of the category test and one of another label
Labelled ==
  << Track(1, "person", PixBox),
     Track(2, "vehicle", Box(Px(20), Px(20), Px(10), Px(10))),
     Track(3, "face", Box(Px(30), Px(30), Px(10), Px(10))),
     Track(4, "dog", Box(Px(40), Px(40), Px(10), Px(10))) >>

LabelLists ==
  { SelectSeq(Labelled, LAMBDA t : t.id \in ids) : ids \in SUBSET (1..4) }

Infos ==
  { [NoInfo EXCEPT !.src = s, !.ppe = l] : s \in Sources, l \in PpeLists }
  \cup { [NoInfo EXCEPT !.src = s, !.tracks = l] : s \in Sources, l \in BoxTracks }
  \cup { [NoInfo EXCEPT !.src = <<100, 100>>, !.lines = ln,
                        !.tracks = << [Track(1, "p", PixBox) EXCEPT !.trail = tr] >>] :
           ln \in LineLists, tr \in Trails }
  \cup { [NoInfo EXCEPT !.src = <<100, 100>>, !.tracks = l, !.counts = c] :
           l \in LabelLists, c \in BOOLEAN }
  \cup { [NoInfo EXCEPT !.ppe = <<Ppe("helmet", PixBox)>>] }

\* the flags an earlier visit may have left when the drawing study starts
DrawFlags == { [f \in FlagNames |-> FALSE], [f \in FlagNames |-> TRUE] }

\* a page without feeds after init(), the flags restored from the store, and an
\* info and a canvas for renderOverlay to be called with
InitDraw ==
  /\ feeds = {} /\ FreshEngine
  /\ boot = "ready" /\ buttons = {"show_person", "show_vehicle", "show_faces"}
  /\ flags \in DrawFlags
  /\ settings = [n \in SettingNames |-> flags[n]]
  /\ stored = <<flags>> /\ onceL = 0
  /\ settingsWs = NoSettingsWs
  /\ dataToken = [c \in Cams |-> NoToken]
  /\ limits = [fetch |-> 0, socks |-> 0, msgs |-> 0, edits |-> 0]
  /\ pass \in { [NoPass EXCEPT !.canvas = cv, !.info = i] : cv \in Canvases, i \in Infos }
  /\ mjpeg = NoPreviews

\* ------------------------------------------------------------------ actions
\* renderOverlay is called with the canvas and the info at hand
RenderOverlay ==
  /\ pass' = [pass EXCEPT !.ran = TRUE, !.flags = flags, !.settings = settings,
                          !.calls = renderOverlayCalls(pass.canvas, pass.info, flags, settings)]
  /\ UNCHANGED <<boot, buttons, defaults, limits, feeds, dataToken, flags, settings, stored,
                 dataMap, chans, pending, onceL, warn, logEl, nFetch, nSock, nMsgs, rafQ,
                 mjpeg, settingsWs, editor, toasts, renders, cause>>

\* the state of the overlay engine
engine == <<boot, buttons, defaults, limits, feeds, dataToken, flags, settings, stored,
            dataMap, chans, pending, onceL, warn, logEl, nFetch, nSock, nMsgs, rafQ,
            settingsWs, editor, toasts, renders, cause>>

\* the script of mjpeg_feed.js runs (line 43)
InitMjpegFeeds ==
  /\ ~mjpeg.init
  /\ mjpeg' = initMjpegFeeds([mjpeg EXCEPT !.last = <<"init", 0>>], 1)
  /\ UNCHANGED <<engine, pass>>

\* shown.bs.modal on the modal of image i
ModalShown == \E i \in 1..Len(mjpeg.imgs) :
  /\ mjpeg.imgs[i].wired /\ mjpeg.events < MaxModalEvents
  /\ mjpeg' = openFeed(Dispatched(mjpeg, "shown", i), i)
  /\ UNCHANGED <<engine, pass>>

\* hidden.bs.modal on the modal of image i
ModalHidden == \E i \in 1..Len(mjpeg.imgs) :
  /\ mjpeg.imgs[i].wired /\ mjpeg.events < MaxModalEvents
  /\ mjpeg' = closeFeed(Dispatched(mjpeg, "hidden", i), i)
  /\ UNCHANGED <<engine, pass>>

\* beforeunload on the window
BeforeUnload ==
  /\ \E i \in 1..Len(mjpeg.imgs) : mjpeg.imgs[i].armed
  /\ mjpeg.events < MaxModalEvents
  /\ mjpeg' = beforeUnload(Dispatched(mjpeg, "beforeunload", 0), 1)
  /\ UNCHANGED <<engine, pass>>

\* img.complete of each feed image at the time of the callback
ImgComplete == {ic \in [Cams -> BOOLEAN] : \A c \in Cams \ feeds : ~ic[c]}

SetupFeed == \E c \in feeds : \E ic \in BOOLEAN :
  /\ ~dataMap[c].reg
  /\ Commit(setupFeed(RunOn("setupFeed", c), Feed(c), ic))

\* the feed images of the page of the opt-in study that fail a check of setupFeed
Strays == { [cam |-> 2, overlay |-> FALSE], [cam |-> NoCam, overlay |-> TRUE],
            [cam |-> NoCam, overlay |-> FALSE] }

\* setupFeed is called with such an image
SetupStray == \E img \in Strays : \E ic \in BOOLEAN :
  Commit(setupFeed(RunOn("setupFeed", img.cam), img, ic))

ApplyOverlay == \E ic \in ImgComplete : Commit(applyOverlay(Run("applyOverlay"), ic))

ToggleClick == \E f \in buttons : \E ic \in ImgComplete :
  Commit(toggleClick(Begin("applyOverlay", "applyOverlay", "click", 0), f, ic))

EnableLineEditor == \E c \in Cams : \E ic \in BOOLEAN :
  /\ dataMap[c].reg
  /\ Commit(enableLineEditor(RunOn("lineEditor", c), c, ic))

\* where the mouse may be on the canvas (normalized, in thousandths)
Points == { <<0, 0>>, <<1000, 300>>, <<300, 1000>>, <<1000, 1000>> }

\* the canvas of camera c is in the document and carries the editor's listeners
Armed(c) ==
  /\ editor[c].on # 0 /\ editor[c].on = dataMap[c].gen
  /\ dataMap[c].canvasDom

MouseDown == \E c \in Cams : \E p \in Points :
  /\ Armed(c)
  /\ Commit(onDown(RunOn("mousedown", c), c, p))

MouseMove == \E c \in Cams : \E p \in Points :
  /\ Armed(c) /\ editor[c].drawing
  /\ Commit(onMove(RunOn("mousemove", c), c, p))

MouseUp == \E c \in Cams : \E p \in Points :
  /\ editor[c].up /\ editor[c].drawing
  /\ Commit(onUp(RunOn("mouseup", c), c, p))

SaveLine == \E c \in Cams :
  /\ editor[c].nSave < MaxSaves
  /\ Commit(saveLine(RunOn("saveLine", c), c))

SaveLineResponse == \E c \in Cams : \E ok \in BOOLEAN :
  /\ editor[c].saving > 0
  /\ Commit(saveLineResponse(Begin("saveLineResponse", "saveLine", IF ok THEN "ok" ELSE "failed", c),
                              c, ok))

\* the token endpoint hands out a fresh token with every answer: the n-th answer of
\* the run carries token n
RECURSIVE Sum(_, _)
Sum(f, D) == IF D = {} THEN 0 ELSE LET x == CHOOSE x \in D : TRUE IN f[x] + Sum(f, D \ {x})
Awaiting == Sum([c \in Cams |-> Sum(pending[c], Origins)], Cams)
FreshToken == PageToken + nFetch - Awaiting + 1

PageInit == \E ic \in ImgComplete :
  /\ boot = "loaded"
  /\ Commit(pageInit(Run("init"), ic))

ConfigResponse == \E ok \in BOOLEAN : \E cfg \in Configs : \E ic \in ImgComplete :
  /\ boot = "config"
  /\ Commit(configResponse(Begin("config", "applyOverlay", IF ok THEN "ok" ELSE "failed", 0),
                           ok, cfg, ic))

\* what the continuation of start() was handed
Answer(outcome) == IF outcome \in {"notOk", "throw"} THEN "failed" ELSE outcome

TokenResponse == \E c \in Cams : \E o \in Origins :
  \E outcome \in {"ok", "okNoToken", "notOk", "throw"} : \E ic \in BOOLEAN :
    /\ pending[c][o] > 0
    /\ Commit(tokenResponse([Begin("tokenResponse", o, Answer(outcome), c)
                               EXCEPT !.pending[c][o] = @ - 1],
                            c, outcome, FreshToken, ic))

PageCleanup ==
  /\ onceL > 0
  /\ Commit(cleanupEntries([Run("cleanup") EXCEPT !.onceL = @ - 1], 1))

WsOpen == \E c \in Cams : \E k \in 1..Len(chans[c]) :
  /\ chans[c][k].ws = "connecting"
  /\ Commit(onopen(BeginCh("open", "", c, k), c, k))

WsMessage == \E c \in Cams : \E k \in 1..Len(chans[c]) : \E m \in Msgs :
  /\ chans[c][k].ws = "open"
  /\ Commit(onmessage(BeginCh("message", m.kind, c, k), c, k, Stamp(m, nMsgs + 1)))

\* a message that omits fields arrives
WsSparse == \E c \in Cams : \E k \in 1..Len(chans[c]) : \E m \in Sparse :
  /\ chans[c][k].ws = "open"
  /\ Commit(onmessage(BeginCh("message", m.kind, c, k), c, k, Stamp(m, nMsgs + 1)))

CodeName(code) == IF code = 1008 THEN "1008" ELSE "other"

WsClose == \E c \in Cams : \E k \in 1..Len(chans[c]) : \E code \in CloseCodes :
  \E err \in BOOLEAN :
  /\ chans[c][k].ws \in {"connecting", "open", "closing"}
  /\ Commit(onclose(IF err THEN onerror(BeginCh("close", CodeName(code), c, k), c, k)
                            ELSE BeginCh("close", CodeName(code), c, k),
                    c, k, code))

TimerFire == \E c \in Cams : \E k \in 1..Len(chans[c]) :
  /\ chans[c][k].timer # 0
  /\ Commit(connect([BeginCh("timer", "", c, k) EXCEPT !.chans[c][k].timer = 0], c, k))

\* the browser runs the requested callbacks oldest first
RafFire ==
  /\ rafQ # <<>>
  /\ Commit(process([BeginCh("tick", "", rafQ[1][1], rafQ[1][2]) EXCEPT !.rafQ = Tail(@)],
                    rafQ[1][1], rafQ[1][2]))

\* DOM events run a callback only where a listener is attached
ImgLoad == \E c \in feeds :
  /\ dataMap[c].loadL # {}
  /\ Commit(imgLoad(RunOn("load", c), c))

WindowResize ==
  /\ \E c \in Cams : dataMap[c].winL # {}
  /\ Commit(windowResize(Run("resize")))

\* a {type: 'settings'} message arrives on the settings socket
SettingsPush == \E d \in PushData :
  /\ \E k \in 1..Len(settingsWs.socks) : settingsWs.socks[k].ws = "open"
  /\ Commit(settingsPush(Run("push"), d))

\* the events of the settings channel
SettingsOpen == \E k \in 1..Len(settingsWs.socks) :
  /\ settingsWs.socks[k].ws = "connecting"
  /\ Commit([BeginCh("settingsOpen", "", 0, k) EXCEPT !.settingsWs = settingsOpen(@, k)])

SettingsError == \E k \in 1..Len(settingsWs.socks) :
  /\ settingsWs.socks[k].ws \in {"connecting", "open"}
  /\ Commit([BeginCh("settingsError", "", 0, k) EXCEPT !.settingsWs = settingsError(@)])

SettingsClose == \E k \in 1..Len(settingsWs.socks) :
  /\ settingsWs.socks[k].ws \in {"connecting", "open", "closing"}
  /\ Commit([BeginCh("settingsClose", "", 0, k) EXCEPT !.settingsWs = settingsClose(@, k)])

SettingsTimer ==
  /\ settingsWs.timer > 0 /\ Len(settingsWs.socks) < MaxSettingsSocks
  /\ Commit([Run("settingsTimer") EXCEPT
              !.settingsWs = makeSocketConnect([@ EXCEPT !.timer = @ - 1])])

SettingsPing == \E k \in 1..Len(settingsWs.socks) :
  /\ settingsWs.socks[k].hb /\ settingsWs.pings < MaxPings
  /\ Commit([BeginCh("settingsPing", "", 0, k) EXCEPT !.settingsWs = settingsPing(@, k)])

Next ==
  \/ SetupFeed \/ ApplyOverlay \/ ToggleClick \/ EnableLineEditor
  \/ TokenResponse \/ PageCleanup
  \/ WsOpen \/ WsMessage \/ WsClose \/ TimerFire \/ RafFire
  \/ ImgLoad \/ WindowResize \/ SettingsPush

Spec == Init /\ [][Next]_vars

\* the reconnect study: the same page with a token in the markup and a server that
\* accepts and drops connections without sending anything
NextChan ==
  \/ SetupFeed \/ ToggleClick
  \/ WsOpen \/ WsClose \/ TimerFire

SpecChan == InitChan /\ [][NextChan]_vars

\* the message study: toggles, token answers, and a server that accepts the
\* connections and sends messages
NextMsg ==
  \/ SetupFeed \/ ToggleClick \/ TokenResponse
  \/ WsOpen \/ WsMessage \/ RafFire

SpecMsg == InitMsg /\ [][NextMsg]_vars

\* the two-camera study
NextCams ==
  \/ SetupFeed \/ ToggleClick \/ EnableLineEditor \/ TokenResponse
  \/ WsOpen \/ WsMessage \/ WsClose \/ TimerFire \/ RafFire

SpecCams == InitCams /\ [][NextCams]_vars

\* the start-up study: init() from the page load on, then toggle clicks
NextBoot ==
  \/ PageInit \/ ConfigResponse
  \/ (boot = "ready" /\ ToggleClick)
  \/ TokenResponse \/ WsOpen \/ PageCleanup

SpecBoot == InitBoot /\ [][NextBoot]_vars

\* the opt-in study: setupFeed on every kind of image, toggles, the line editor and
\* the socket events
NextStray ==
  \/ SetupFeed \/ SetupStray \/ ToggleClick \/ EnableLineEditor
  \/ WsOpen \/ WsClose \/ TimerFire

SpecStray == InitStray /\ [][NextStray]_vars

\* the preview study: the script of mjpeg_feed.js, then modal and unload events
NextMjpeg == InitMjpegFeeds \/ ModalShown \/ ModalHidden \/ BeforeUnload

SpecMjpeg == InitMjpeg /\ [][NextMjpeg]_vars

\* the drawing study: renderOverlay on a given canvas and info, under the flags
\* the toggle buttons set
NextDraw == ToggleClick \/ RenderOverlay

SpecDraw == InitDraw /\ [][NextDraw]_vars

\* the apply study: toggles, a token answer, and a server that sends full and
\* sparse messages while settings are pushed
NextApply ==
  \/ SetupFeed \/ ToggleClick \/ TokenResponse
  \/ WsOpen \/ WsMessage \/ WsSparse \/ RafFire
  \/ SettingsPush

SpecApply == InitApply /\ [][NextApply]_vars

\* the settings-channel study: the socket of makeSocket('/ws/config') opens, fails,
\* closes and reconnects while its keep-alive interval fires and settings are pushed
NextSettings ==
  \/ SettingsOpen \/ SettingsError \/ SettingsClose \/ SettingsTimer \/ SettingsPing
  \/ SettingsPush

SpecSettings == Init /\ [][NextSettings]_vars

\* the line study: the editor is opened (not during a drag), a line is drawn
\* and saved while the server sends detection messages
NextLine ==
  \/ SetupFeed
  \/ ((\A c \in Cams : ~editor[c].drawing) /\ EnableLineEditor)
  \/ MouseDown \/ MouseMove \/ MouseUp
  \/ SaveLine \/ SaveLineResponse
  \/ WsOpen \/ WsMessage \/ RafFire

SpecLine == InitLine /\ [][NextLine]_vars

\* the apply study with a browser that runs every animation frame it was asked for
\* (the page stays visible)
SpecApplyFair == SpecApply /\ WF_vars(RafFire)

\* -------------------------------------------------------------- properties
Channels(c) == 1..Len(chans[c])

\* the channels of camera c whose WebSocket is connecting or open
Live(c) == {k \in Channels(c) : chans[c][k].ws \in {"connecting", "open"}}

DataEmpty(e) == e.tracks = 0 /\ e.lines = 0 /\ e.ppe = 0 /\ e.counts = 0

\* started at least once, stopped since, and no start() suspended at its await
Stopped(c) ==
  /\ dataMap[c].reg /\ ~dataMap[c].active /\ dataMap[c].gen > 0
  /\ \A o \in Origins : pending[c][o] = 0

\* C1: in every reachable state each camera has at most one detection WebSocket
\* that is connecting or open.
C1_AtMostOneLiveSocket == \A c \in Cams : Cardinality(Live(c)) <= 1

\* C2: once the close function of a channel has been called, that channel never
\* creates another WebSocket, a reconnect timer pending at the call included.
C2_NoSocketAfterClose ==
  [][\A c \in Cams : \A k \in Channels(c) :
       ~chans[c][k].active =>
          ~(chans'[c][k].ws = "connecting" /\ chans[c][k].ws # "connecting")]_vars

\* C3: between the return of entry.stop() and the next start(), renderOverlay is not
\* invoked for the entry, no message is enqueued or applied for it, and its tracks,
\* lines, ppe and counts stay empty.
C3_QuietAfterStop ==
  [][\A c \in Cams :
       (Stopped(c) /\ Stopped(c)') =>
          /\ \A r \in renders' : r[1] # c
          /\ DataEmpty(dataMap'[c])
          /\ \A k \in Channels(c) : Len(chans'[c][k].queue) <= Len(chans[c][k].queue)]_vars

C5_OneSocketPerToken ==
  [][\A c \in Cams :
       dataToken[c] = NoToken =>
          /\ (\A k \in Channels(c) : chans[c][k].tok # NoToken)'
          /\ (chans[c] = <<>> /\ chans'[c] # <<>>) =>
               (cause'.op = "tokenResponse" /\ cause'.res = "ok")
          /\ (cause'.op = "tokenResponse" /\ cause'.res = "ok" /\ pending'[c] # pending[c]) =>
               /\ Cardinality(Live(c)') = 1
               /\ \A k \in Live(c)' : chans'[c][k].tok = dataMap'[c].token
          /\ \A k \in Channels(c) : chans'[c][k].tok = chans[c][k].tok]_vars

Suspended(p) == Sum(p, Origins)

\* a callback that is a call of entry.start() / entry.stop() on every registered entry
StartCall == cause'.op = "lineEditor" \/ (cause'.op = "applyOverlay" /\ AnyFlag(S'))
StopCall  == cause'.op = "cleanup" \/ (cause'.op = "applyOverlay" /\ ~AnyFlag(S'))

\* the continuation of a start() whose token request failed: it changes nothing of
\* the entry or its channels, issues no request, and shows the token warning
FailedStartIsInert ==
  \A c \in Cams :
    (cause'.op = "tokenResponse" /\ cause'.res = "failed" /\ pending'[c] # pending[c]) =>
       /\ dataMap'[c] = dataMap[c]
       /\ chans'[c] = chans[c]
       /\ nSock' = nSock /\ nFetch' = nFetch
       /\ warn'

\* the callbacks that issue a token request for an entry that has no token while
\* the token warning is showing
RetriedOnlyBy(ops) ==
  \A c \in Cams :
    (warn /\ dataMap[c].reg /\ dataMap[c].token = NoToken
       /\ Suspended(pending'[c]) > Suspended(pending[c])) => cause'.op \in ops

C7_ApplyOverlayEffect ==
  [][\A c \in Cams :
       (cause'.op = "applyOverlay" /\ dataMap[c].reg) =>
          /\ (~AnyFlag(S') /\ dataMap[c].active) =>
               (~dataMap'[c].active /\ Live(c)' = {} /\ ~dataMap'[c].canvasDom)
          /\ (AnyFlag(S') /\ ~dataMap[c].active /\ dataMap[c].token # NoToken) =>
               (dataMap'[c].active /\ dataMap'[c].canvasDom /\ Cardinality(Live(c)') = 1)]_vars

ActiveChangedOnlyBy(starters, stoppers) ==
  \A c \in Cams :
    /\ (~dataMap[c].active /\ dataMap'[c].active) => cause'.by \in starters
    /\ (dataMap[c].active /\ ~dataMap'[c].active) => cause'.by \in stoppers

\* C8 as stated: every change of an entry's active state belongs to applyOverlay or
\* to the enabled-flags check at the end of setupFeed.
C8_OnlyDecisionPoint ==
  [][ActiveChangedOnlyBy({"applyOverlay", "setupFeed"}, {"applyOverlay", "setupFeed"})]_vars

\* C8, amended: an entry becomes active only through a start() called by
\* applyOverlay, by the check at the end of setupFeed or by enableLineEditor, and
\* becomes inactive only through a stop() called by applyOverlay or by the page
\* cleanup listener; settings pushes, inbound messages, socket events, timers,
\* refresh ticks and DOM events never change it.
C8_StartersAndStoppers ==
  [][ActiveChangedOnlyBy({"applyOverlay", "setupFeed", "lineEditor"},
                         {"applyOverlay", "cleanup"})]_vars

\* the line editor's start() has activated an entry while every flag is off
C8_Witness ==
  /\ cause.op = "tokenResponse" /\ cause.by = "lineEditor" /\ cause.res = "ok"
  /\ dataMap[1].active /\ dataMap[1].gen = 1 /\ ~AnyFlag(S)

\* C9: start() on an entry that is already active and stop() on an entry that is
\* inactive change nothing: the entry's fields (canvas, listeners, close handle,
\* token, data), its channels and sockets, the suspended starts and the token
\* warning are as before, and no socket is created and no token request issued.
C9_GuardedCallsChangeNothing ==
  [][\A c \in Cams :
       (dataMap[c].reg /\ \/ (StartCall /\ dataMap[c].active)
                          \/ (StopCall /\ ~dataMap[c].active)) =>
          /\ dataMap'[c] = dataMap[c]
          /\ chans'[c] = chans[c]
          /\ pending'[c] = pending[c]
          /\ nSock' = nSock /\ nFetch' = nFetch
          /\ warn' = warn]_vars

\* applyOverlay has just called start() on an entry whose socket is open: the
\* entry was active before the call, since a start() that acts leaves the close
\* handle on a channel that is connecting
C9_Witness ==
  /\ cause.op = "applyOverlay" /\ AnyFlag(S)
  /\ dataMap[1].active /\ dataMap[1].close > 0
  /\ chans[1][dataMap[1].close].ws = "open"

\* C10: the close of a socket with code 1008 shows 'Auth failed'; the close of a
\* socket of a channel that is not torn down, whatever its code, creates no socket
\* itself and leaves exactly one timer set to the delay current at the close; the
\* timer's firing creates exactly one socket; and a channel that is not torn down
\* always has a socket or a timer.
C10_AuthCloseReconnects ==
  [][\A c \in Cams : \A k \in Channels(c) :
       /\ (cause'.op = "close" /\ chans[c][k].ws # "closed" /\ chans'[c][k].ws = "closed") =>
            /\ (cause'.res = "1008") <=> ("Auth failed" \in toasts')
            /\ chans[c][k].active =>
                 /\ chans'[c][k].active
                 /\ chans[c][k].timer = 0
                 /\ chans'[c][k].timer = chans[c][k].delay
                 /\ chans'[c][k].timer > 0
                 /\ nSock' = nSock
       /\ (chans[c][k].timer # 0 /\ chans'[c][k].timer = 0) =>
            /\ chans[c][k].ws = "closed" /\ chans'[c][k].ws = "connecting"
            /\ nSock' = nSock + 1
       /\ chans'[c][k].active => (chans'[c][k].ws # "closed" \/ chans'[c][k].timer # 0)]_vars

\* a socket of a channel in use has just closed with code 1008 when the delay had
\* reached its cap: both toasts are shown and the timer is set all the same
C10_Witness ==
  /\ cause.op = "close" /\ cause.res = "1008"
  /\ {"Auth failed", "Reconnect failed"} \subseteq toasts
  /\ \E k \in Channels(1) :
       /\ chans[1][k].active /\ chans[1][k].ws = "closed"
       /\ chans[1][k].timer = MaxDelay

\* the channel that has just received a message of the given kind
Received(c, k, kind) ==
  cause'.op = "message" /\ cause'.res = kind /\ cause'.cam = c /\ cause'.ch = k

\* what a message that is not applied leaves alone: the entry, the render queue,
\* the refresh tick, and nothing is painted
NotEnqueued(c, k) ==
  /\ dataMap'[c] = dataMap[c]
  /\ chans'[c][k].queue = chans[c][k].queue
  /\ chans'[c][k].raf = chans[c][k].raf
  /\ rafQ' = rafQ
  /\ renders' = {}

\* C11: a message with error 'unauthorized' is not enqueued, schedules and paints
\* nothing and leaves the entry's tracks, lines, ppe and counts as they were; it
\* shows 'Auth failed', makes the token warning visible and closes the socket; and
\* when that socket's close arrives while the channel is not torn down, the
\* reconnect timer is set.
C11_UnauthorizedMessage ==
  [][\A c \in Cams : \A k \in Channels(c) :
       /\ Received(c, k, "unauthorized") =>
            /\ NotEnqueued(c, k)
            /\ "Auth failed" \in toasts' /\ warn'
            /\ chans[c][k].ws = "open" /\ chans'[c][k].ws = "closing"
            /\ nSock' = nSock
       /\ (chans[c][k].ws = "closing" /\ chans[c][k].active /\ chans'[c][k].ws = "closed") =>
            chans'[c][k].timer > 0]_vars

\* an unauthorized message has just arrived on a channel in use
C11_Witness ==
  /\ cause.op = "message" /\ cause.res = "unauthorized"
  /\ warn /\ "Auth failed" \in toasts /\ DataEmpty(dataMap[1])
  /\ \E k \in Channels(1) :
       chans[1][k].active /\ chans[1][k].ws = "closing" /\ chans[1][k].queue = <<>>

\* C12: a message that fails to parse leaves the entry's tracks, lines, ppe and
\* counts, the render queue, the pending refresh tick and the socket as they were:
\* nothing is enqueued, scheduled or painted, the socket stays open, and no
\* reconnect timer is set.
C12_MalformedMessage ==
  [][\A c \in Cams : \A k \in Channels(c) :
       Received(c, k, "garbage") =>
          /\ NotEnqueued(c, k)
          /\ chans[c][k].ws = "open" /\ chans'[c][k].ws = "open"
          /\ chans'[c][k].timer = chans[c][k].timer /\ chans'[c][k].delay = chans[c][k].delay
          /\ nSock' = nSock /\ toasts' = {} /\ warn' = warn]_vars

\* a message that does not parse has just arrived and the socket is still open
C12_Witness ==
  /\ cause.op = "message" /\ cause.res = "garbage"
  /\ \E k \in Channels(1) :
       /\ chans[1][k].ws = "open" /\ chans[1][k].queue = <<>>
       /\ chans[1][k].raf = "none" /\ Len(chans[1][k].logs) = 1

\* C13: for each camera at most one refresh-tick render is requested at any time
\* (so that one display refresh paints the camera's overlay at most once).
C13_OneTickPerCamera ==
  \A c \in Cams : Cardinality({i \in 1..Len(rafQ) : rafQ[i][1] = c}) <= 1

Ticked(c, k) == cause'.op = "tick" /\ cause'.cam = c /\ cause'.ch = k

\* C14: a refresh tick with a non-empty queue applies the last message of the
\* queue and empties the queue; and for one camera the message applied is never
\* older than the one applied before it.
C14_LastMessageWins ==
  [][\A c \in Cams : \A k \in Channels(c) :
       (Ticked(c, k) /\ chans[c][k].queue # <<>>) =>
          /\ dataMap'[c].tracks = chans[c][k].queue[Len(chans[c][k].queue)].tracks
          /\ chans'[c][k].queue = <<>>
          /\ dataMap'[c].tracks >= dataMap[c].tracks]_vars

\* C20: a message on a channel, parseable or not, goes to the head of the channel's
\* log, the lines before it follow in their order, the log holds at most five
\* lines, and the log surface shows the log; hence after n messages it shows the
\* min(n, 5) most recent ones, newest first.
C20_LogKeepsLastFive ==
  [][\A c \in Cams : \A k \in Channels(c) :
       (\E kind \in {"data", "unauthorized", "garbage"} : Received(c, k, kind)) =>
          LET old == chans[c][k].logs
              new == chans'[c][k].logs
          IN /\ Len(new) = Min(Len(old) + 1, 5)
             /\ new[1].id = nMsgs' /\ new[1].kind = cause'.res
             /\ \A i \in 2..Len(new) : new[i] = old[i - 1]
             /\ logEl' = new]_vars

\* the sixth message on a channel has arrived: the log shows messages 6 to 2
C20_Witness ==
  /\ cause.op = "message" /\ nMsgs = 6
  /\ \E k \in Channels(1) :
       /\ [i \in 1..Len(chans[1][k].logs) |-> chans[1][k].logs[i].id] = <<6, 5, 4, 3, 2>>
       /\ logEl = chans[1][k].logs

\* C15: after a settings push with payload d the settings object equals d: a key
\* of d has d's value and a key absent from d no longer has a value.
C15_PushReplacesSettings ==
  [][cause'.op = "push" =>
       \E d \in PushData :
         \A n \in SettingNames : settings'[n] = (n \in DOMAIN d /\ d[n])]_vars

\* applyOverlay has run on the flags of the new state: the show_* settings are the
\* flags, and every registered entry has been started (it is active or its start()
\* waits for a token) when a flag is on, stopped when none is
AppliedOverlay ==
  /\ \A n \in SettingNames : settings'[n] = flags'[n]
  /\ \A c \in Cams : dataMap[c].reg =>
       IF AnyFlag(S')
       THEN dataMap'[c].active \/ Suspended(pending'[c]) > 0
       ELSE ~dataMap'[c].active

\* C16: a toggle click on flag f negates flags[f], leaves every other flag as it
\* was, writes the full flag set to the store and runs applyOverlay; nothing else
\* changes the flags or the store once init() is done, so that after any sequence
\* of toggle clicks the stored flag set is the flag set in memory.
C16_ToggleClick ==
  [][/\ cause'.res = "click" =>
          /\ \E f \in buttons : flags' = [flags EXCEPT ![f] = ~flags[f]]
          /\ stored' = <<flags'>>
          /\ AppliedOverlay
     /\ (boot = "ready" /\ cause'.res # "click") => (flags' = flags /\ stored' = stored)
     /\ (boot = "ready" /\ stored = <<flags>>) => stored' = <<flags'>>]_vars

\* clicks on two buttons after a start-up that found show_lines off in the store
C16_Witness ==
  /\ cause.res = "click" /\ boot = "ready"
  /\ flags["show_ids"] /\ flags["show_lines"]
  /\ stored = <<flags>> /\ settings["show_ids"] /\ settings["show_lines"]
  /\ dataMap[1].active

\* C17: when init() is done, each flag the config endpoint reports is the stored
\* override where the store has one and the reported default otherwise.
C17_DefaultsOverlaidByStore ==
  [][cause'.op = "config" =>
       \A n \in SettingNames :
         flags'[n] = IF stored = <<>> THEN defaults'[n] ELSE stored[1][n]]_vars

\* the entry of camera d, its channels (queues and sockets), its suspended starts
\* and its requested refresh ticks are the same in t as in the current state
SameCamera(t, d) ==
  /\ t.dataMap[d] = dataMap[d]
  /\ t.chans[d] = chans[d]
  /\ t.pending[d] = pending[d]
  /\ SelectSeq(t.rafQ, LAMBDA r : r[1] = d) = SelectSeq(rafQ, LAMBDA r : r[1] = d)

\* C18: a callback that runs for one camera (the continuation of its start(), a
\* message, refresh tick, close or reconnect of one of its channels, its
\* setupFeed or line editor) leaves every other camera's entry, channels and
\* pending work as they were; and so do start() and stop() of one camera, applied
\* to any state reached.
C18_CamerasIndependent ==
  [][\A c \in Cams : \A d \in Cams \ {c} :
       /\ cause'.cam = c => SameCamera(S', d)
       /\ SameCamera(stop(S, c), d)
       /\ \A ic \in BOOLEAN : SameCamera(start(S, c, "applyOverlay", ic), d)]_vars

\* a message has just been applied to camera 1 while camera 2 is active with a
\* socket of its own and no data
C18_Witness ==
  /\ cause.op = "tick" /\ cause.cam = 1 /\ dataMap[1].tracks # 0
  /\ dataMap[2].active /\ DataEmpty(dataMap[2]) /\ Live(2) # {}

\* an entry that is registered while a flag is on, was never started and has no
\* start() waiting: every token request made for it has failed
FailedInactive(c) ==
  /\ dataMap[c].reg /\ AnyFlag(S)
  /\ ~dataMap[c].active /\ dataMap[c].gen = 0 /\ dataMap[c].token = NoToken
  /\ Suspended(pending[c]) = 0

\* C19: the token warning is visible for as long as a camera is inactive because
\* its token resolution failed, whatever the other cameras do.
C19_WarningPersists == \A c \in Cams : FailedInactive(c) => warn

\* ------------------------------------------------------ the drawing study
\* the strokeRect calls the last pass made for part <<kind, n>>
BoxCalls(kind, n) ==
  { j \in 1..Len(pass.calls) :
      pass.calls[j].fn = "strokeRect" /\ pass.calls[j].by = <<kind, n>> }

\* the displayed image of the last pass
PassImage == Displayed(pass.canvas, pass.info.src)

\* a box of four numbers
FourNumbers(box) == Len(box) = 4 /\ \A i \in 1..4 : box[i].fin

\* what the claim says the box scales to: every component times the displayed size
\* when all four are at most 1.01, times displayed size over source size otherwise
ScaledAsClaimed(box) ==
  LET img == <<PassImage.imgW, PassImage.imgH, PassImage.imgW, PassImage.imgH>>
      src == <<pass.info.src[1], pass.info.src[2], pass.info.src[1], pass.info.src[2]>>
  IN IF \A i \in 1..4 : box[i].val <= 1010
     THEN [i \in 1..4 |-> box[i].val * img[i]]
     ELSE [i \in 1..4 |-> (box[i].val * img[i]) \div src[i]]

\* C21: scaleBox treats a box of four numbers as normalized (component times displayed
\* size) exactly when all four components are at most 1.01 and as source pixels
\* (component times displayed size over source size) otherwise; a box it accepts is
\* drawn at that place; with source and display 100 x 100, [10,10,10,10] stays
\* [10,10,10,10].
C21_ScaleBoxThreshold ==
  (pass.ran /\ pass.info.src # <<>>) =>
    \A i \in 1..Len(pass.info.ppe) :
      LET box == pass.info.ppe[i].box
          b   == scaleBox(box, pass.info.src[1], pass.info.src[2], PassImage.imgW, PassImage.imgH)
      IN FourNumbers(box) =>
           /\ b # NullBox => b = ScaledAsClaimed(box)
           /\ b # NullBox =>
                \E j \in BoxCalls("ppe", i) :
                  pass.calls[j].args = <<PassImage.offX + ScaledAsClaimed(box)[1],
                                         PassImage.offY + ScaledAsClaimed(box)[2],
                                         ScaledAsClaimed(box)[3], ScaledAsClaimed(box)[4]>>
           /\ b = NullBox <=> (ScaledAsClaimed(box)[3] <= 0 \/ ScaledAsClaimed(box)[4] <= 0)
           /\ (box = PixBox /\ pass.info.src = <<100, 100>> /\ pass.canvas = <<100, 100>>)
                => b = <<Px(10), Px(10), Px(10), Px(10)>>

\* a pass drew a box whose components are all exactly 1.01 (101 display pixels wide on
\* a 100 pixel image) next to a box in source pixels
C21_Witness ==
  /\ pass.ran /\ pass.info.src = <<200, 200>> /\ pass.canvas = <<100, 100>>
  /\ Len(pass.info.ppe) = 2
  /\ pass.info.ppe[1].box = Box(1010, 1010, 1010, 1010)
  /\ pass.info.ppe[2].box = PixBox
  /\ \E j \in BoxCalls("ppe", 1) : pass.calls[j].args = <<Px(101), Px(101), Px(101), Px(101)>>
  /\ \E j \in BoxCalls("ppe", 2) : pass.calls[j].args = <<Px(5), Px(5), Px(5), Px(5)>>

\* a box whose scaled values are all finite and whose scaled width and height are
\* positive
ValidBox(box) ==
  FourNumbers(box) /\ ScaledAsClaimed(box)[3] > 0 /\ ScaledAsClaimed(box)[4] > 0

\* the tracks and PPE items of the last pass that are to be drawn: visible under the
\* flags of the pass, with a valid box
DrawnTracks ==
  { i \in 1..Len(pass.info.tracks) :
      Shown(pass.info.tracks[i], pass.flags) /\ ValidBox(pass.info.tracks[i].box) }

DrawnPpe == { i \in 1..Len(pass.info.ppe) : ValidBox(pass.info.ppe[i].box) }

\* C22: in a render pass a track or PPE box that is not valid makes no draw call, every
\* valid visible box is drawn exactly once, and the number of box draw calls is the
\* number of valid visible boxes (none for an empty list).
C22_InvalidBoxesDropped ==
  (pass.ran /\ pass.info.src # <<>>) =>
    /\ \A i \in 1..Len(pass.info.ppe) :
         Cardinality(BoxCalls("ppe", i)) = IF i \in DrawnPpe THEN 1 ELSE 0
    /\ \A i \in 1..Len(pass.info.tracks) :
         Cardinality(BoxCalls("track", pass.info.tracks[i].id)) = IF i \in DrawnTracks THEN 1 ELSE 0
    /\ Cardinality({ j \in 1..Len(pass.calls) :
                       /\ pass.calls[j].fn = "strokeRect"
                       /\ pass.calls[j].by[1] \in {"track", "ppe"} })
         = Cardinality(DrawnTracks) + Cardinality(DrawnPpe)

\* a pass over a PPE list whose first box has a component that is no number and whose
\* second box is valid made exactly one box draw call, for the second
C22_Witness ==
  /\ pass.ran /\ pass.info.src # <<>>
  /\ Len(pass.info.ppe) = 2
  /\ Len(pass.info.ppe[1].box) = 4 /\ ~pass.info.ppe[1].box[3].fin
  /\ DrawnPpe = {2}
  /\ Len(pass.calls) = 1
  /\ BoxCalls("ppe", 2) = {1}

\* the colour the claim gives a track with trail points a, b (the last two) against a
\* line at position pos on the axis (1: x, 2: y), dflt being the default colour
ClaimedColour(a, b, axis, pos, dflt) ==
  IF a[axis] < pos /\ pos < b[axis] THEN "green"
  ELSE IF b[axis] < pos /\ pos < a[axis] THEN "red"
  ELSE dflt

\* C23: for a drawn track with at least two trail points and a vertical (horizontal)
\* first line, the box is stroked green iff the last two trail points lie strictly on
\* opposite sides of the line with x (y) increasing, red iff on opposite sides with x
\* (y) decreasing, and in the default colour otherwise, also when a point is on the
\* line; the trail is stroked likewise, its default colour being red.
C23_CrossingColour ==
  (pass.ran /\ pass.info.src # <<>> /\ pass.info.lines # <<>>) =>
    \A i \in DrawnTracks :
      LET t    == pass.info.tracks[i]
          ln   == pass.info.lines[1]
          n    == Len(t.trail)
          axis == IF ln[1] = ln[3] THEN 1 ELSE 2
          pos  == ln[axis] * pass.info.src[axis]
      IN (n >= 2 /\ (ln[1] = ln[3] \/ ln[2] = ln[4])) =>
           \A j \in 1..Len(pass.calls) :
             /\ (pass.calls[j].fn = "strokeRect" /\ pass.calls[j].by = <<"track", t.id>>)
                  => pass.calls[j].style = ClaimedColour(t.trail[n - 1], t.trail[n], axis, pos, "yellow")
             /\ (pass.calls[j].fn = "stroke" /\ pass.calls[j].by = <<"trail", t.id>>)
                  => pass.calls[j].style = ClaimedColour(t.trail[n - 1], t.trail[n], axis, pos, "red")

\* a pass stroked the box of a track green whose trail went from x = 40 to x = 60 over a
\* vertical line at x = 50, the trail being drawn as well
C23_Witness ==
  /\ pass.ran /\ pass.settings["show_track_lines"]
  /\ pass.info.lines = << <<500, 0, 500, 1000>> >>
  /\ Len(pass.info.tracks) = 1
  /\ pass.info.tracks[1].trail = << <<Px(40), Px(60)>>, <<Px(60), Px(40)>> >>
  /\ \E j \in BoxCalls("track", 1) : pass.calls[j].style = "green"
  /\ \E j \in 1..Len(pass.calls) : pass.calls[j].fn = "stroke" /\ pass.calls[j].style = "green"

\* track i of the last pass was drawn
TrackDrawn(i) == BoxCalls("track", pass.info.tracks[i].id) # {}

\* C24: a track labelled person (vehicle, face) with a valid box is drawn iff
\* show_person (show_vehicle, show_faces) is on, whatever the other flags are.
C24_CategoryFilter ==
  (pass.ran /\ pass.info.src # <<>>) =>
    \A i \in 1..Len(pass.info.tracks) :
      LET t == pass.info.tracks[i]
      IN ValidBox(t.box) =>
           /\ t.label = "person"  => (TrackDrawn(i) <=> pass.flags["show_person"])
           /\ t.label = "vehicle" => (TrackDrawn(i) <=> pass.flags["show_vehicle"])
           /\ t.label = "face"    => (TrackDrawn(i) <=> pass.flags["show_faces"])

\* a pass over a person, a vehicle and a face track with show_person off and every
\* other flag on drew the vehicle and the face and not the person
C24_Witness ==
  /\ pass.ran
  /\ pass.flags = [f \in FlagNames |-> f # "show_person"]
  /\ Len(pass.info.tracks) = 3
  /\ pass.info.tracks[1].label = "person" /\ ~TrackDrawn(1)
  /\ pass.info.tracks[2].label = "vehicle" /\ TrackDrawn(2)
  /\ pass.info.tracks[3].label = "face" /\ TrackDrawn(3)

\* --------------------------------------------------------- the opt-in study
\* C25: a camera without an opted-in feed image never has an entry, a canvas, a socket
\* or a token request, whatever the flags are; setupFeed on an image failing a check
\* changes nothing; setupFeed on a valid feed while every flag is off registers the
\* entry and opens no socket, requests no token and creates no canvas.
C25_SetupFeedChecks ==
  [][ /\ \A c \in Cams \ feeds :
           /\ dataMap'[c] = NoEntry /\ chans'[c] = <<>>
           /\ \A o \in Origins : pending'[c][o] = 0
      /\ (cause'.op = "setupFeed" /\ cause'.cam \notin feeds) =>
           /\ dataMap' = dataMap /\ chans' = chans
           /\ nSock' = nSock /\ nFetch' = nFetch
      /\ (cause'.op = "setupFeed" /\ cause'.cam \in feeds /\ ~AnyFlag(S)) =>
           /\ dataMap'[cause'.cam].reg
           /\ ~dataMap'[cause'.cam].active /\ ~dataMap'[cause'.cam].canvasDom
           /\ chans' = chans /\ nSock' = nSock /\ nFetch' = nFetch
    ]_vars

\* setupFeed has just been called on the image of camera 2, whose container is not
\* opted in, while a flag is on and the overlay of camera 1 is active: camera 2 has no
\* entry
C25_Witness ==
  /\ cause.op = "setupFeed" /\ cause.cam = 2
  /\ AnyFlag(S) /\ dataMap[1].active /\ dataMap[1].canvasDom
  /\ dataMap[2] = NoEntry /\ chans[2] = <<>>

\* --------------------------------------------------------- the preview study
\* the kinds of the requests sent for image i, oldest first
RECURSIVE KindsOf(_, _)
KindsOf(reqs, i) ==
  IF reqs = <<>> THEN <<>>
  ELSE IF Head(reqs)[2] = i THEN <<Head(reqs)[1]>> \o KindsOf(Tail(reqs), i)
       ELSE KindsOf(Tail(reqs), i)

\* show, hide, show, ... starting with show
Alternating(kinds) ==
  \A n \in 1..Len(kinds) : kinds[n] = IF n % 2 = 1 THEN "show" ELSE "hide"

\* C26: for each modal feed image with a camera the show and hide requests alternate
\* starting with show; a shown event on an opened feed and a hidden event on a feed
\* that is not opened send no request; the image carries the MJPEG address exactly
\* while the feed is opened.
C26_ShowHideAlternate ==
  [][ \A i \in 1..Len(mjpeg.imgs) :
        (mjpeg.imgs[i].modal /\ mjpeg.imgs[i].cam # NoCam) =>
          /\ Alternating(KindsOf(mjpeg'.reqs, i))
          /\ (mjpeg'.imgs[i].src = "mjpeg") <=> mjpeg'.imgs[i].opened
          /\ (mjpeg'.last = <<"shown", i>> /\ mjpeg.imgs[i].opened) => mjpeg'.reqs = mjpeg.reqs
          /\ (mjpeg'.last = <<"hidden", i>> /\ ~mjpeg.imgs[i].opened) => mjpeg'.reqs = mjpeg.reqs
          /\ (mjpeg'.last = <<"shown", i>> /\ ~mjpeg.imgs[i].opened)
               => mjpeg'.reqs = Append(mjpeg.reqs, <<"show", i>>)
          /\ (mjpeg'.last = <<"hidden", i>> /\ mjpeg.imgs[i].opened)
               => mjpeg'.reqs = Append(mjpeg.reqs, <<"hide", i>>)
    ]_vars

\* the preview of camera 1 was shown twice in a row, hidden, and hidden again: one
\* show and one hide request were sent for it
C26_Witness ==
  /\ mjpeg.last = <<"hidden", 1>> /\ mjpeg.events = 4
  /\ KindsOf(mjpeg.reqs, 1) = <<"show", "hide">>
  /\ KindsOf(mjpeg.reqs, 2) = <<>>
  /\ mjpeg.imgs[1].src = "none" /\ ~mjpeg.imgs[1].opened

\* C27: after a modal's hidden event the feed image inside that modal has no src
\* attribute, whatever its state before the event.
C27_NoSrcAfterHidden ==
  [][ \A i \in 1..Len(mjpeg.imgs) :
        mjpeg'.last = <<"hidden", i>> => mjpeg'.imgs[i].src = "none" ]_vars

\* ------------------------------------------------------- the reconnect study
\* the delay before the n-th consecutive reconnect
Backoff(n) == Min(1000 * 2^(n - 1), 10000)

\* the socket of channel k of camera c has just closed
Closed(c, k) == cause'.op = "close" /\ cause'.cam = c /\ cause'.ch = k

\* C28: a channel starts with the delay 1000 = Backoff(1); a close of a channel that is
\* not torn down schedules the reconnect after the current delay Backoff(n) and makes
\* the delay Backoff(n + 1); an open sets the delay back to 1000; so the delay is
\* always one of 1000, 2000, 4000, 8000, 10000.
C28_BackoffDelays ==
  [][\A c \in Cams : \A k \in 1..Len(chans'[c]) :
       /\ k \notin Channels(c) => chans'[c][k].delay = Backoff(1)
       /\ chans'[c][k].active => chans'[c][k].delay \in {1000, 2000, 4000, 8000, 10000}
       /\ (k \in Channels(c) /\ Closed(c, k) /\ chans[c][k].active) =>
            \E n \in 1..5 :
              /\ chans[c][k].delay = Backoff(n)
              /\ chans'[c][k].timer = Backoff(n)
              /\ chans'[c][k].delay = Backoff(n + 1)
       /\ (k \in Channels(c) /\ cause'.op = "open" /\ cause'.cam = c /\ cause'.ch = k) =>
            chans'[c][k].delay = Backoff(1)
       /\ (k \in Channels(c) /\ cause'.op \notin {"close", "open"} /\ chans'[c][k].active) =>
            chans'[c][k].delay = chans[c][k].delay
    ]_vars

\* the fourth socket of the run has closed, none having opened: the fourth reconnect
\* is scheduled after 8000 ms and the delay is at its cap
C28_Witness ==
  /\ nSock = 4 /\ cause.op = "close" /\ cause.ch = 1
  /\ Len(chans[1]) = 1
  /\ chans[1][1].active /\ chans[1][1].ws = "closed"
  /\ chans[1][1].timer = 8000 /\ chans[1][1].delay = 10000

\* C29: at a close of a channel that is not torn down 'Reconnect failed' is shown
\* exactly when the delay had reached 10000 before that close (so not while it was
\* 1000, 2000, 4000 or 8000), and the reconnect is scheduled all the same.
C29_NoticeAtCap ==
  [][\A c \in Cams : \A k \in Channels(c) :
       (Closed(c, k) /\ chans[c][k].active) =>
         /\ ("Reconnect failed" \in toasts') <=> (chans[c][k].delay >= 10000)
         /\ chans[c][k].delay \in {1000, 2000, 4000, 8000} => "Reconnect failed" \notin toasts'
         /\ chans'[c][k].active
         /\ chans'[c][k].timer = chans[c][k].delay /\ chans'[c][k].timer > 0
    ]_vars

\* a socket has just closed with a code other than 1008 when the delay had reached its
\* cap: the notice is shown and the reconnect scheduled
C29_Witness ==
  /\ cause.op = "close" /\ cause.res = "other"
  /\ toasts = {"Reconnect failed"}
  /\ \E k \in Channels(1) :
       /\ cause.ch = k
       /\ chans[1][k].active /\ chans[1][k].ws = "closed"
       /\ chans[1][k].timer = MaxDelay

\* C30: within one run of consecutive failed reconnects of a channel (no open in
\* between) 'Reconnect failed' is shown at most once.
C30_NoticeOncePerRun ==
  \A c \in Cams : \A k \in Channels(c) : chans[c][k].notices <= 1

\* C31: after a refresh tick applies message m, the entry's tracks, lines, ppe and
\* counts are exactly those of m, empty where m omits them; of the entry's data
\* only src is carried over, and only when m has no src.
C31_AppliedWholesale ==
  [][\A c \in Cams : \A k \in Channels(c) :
       (Ticked(c, k) /\ chans[c][k].queue # <<>>) =>
          LET m == chans[c][k].queue[Len(chans[c][k].queue)] IN
          /\ dataMap'[c].tracks = m.tracks
          /\ dataMap'[c].lines = m.lines
          /\ dataMap'[c].ppe = m.ppe
          /\ dataMap'[c].counts = m.counts
          /\ dataMap'[c].src = IF m.src # 0 THEN "msg" ELSE dataMap[c].src]_vars

\* a message carrying nothing was applied after a full one: the data is empty again,
\* the src of the full message is still there
C31_Witness ==
  /\ cause.op = "tick" /\ nMsgs = 2
  /\ dataMap[1].active /\ DataEmpty(dataMap[1])
  /\ dataMap[1].src = "msg"

\* C32: a refresh tick that fires for an entry whose drawing surface no longer
\* exists clears and draws nothing; painting happens only on a canvas that is
\* attached to an active entry.
C32_PaintsOnlyAttached ==
  \A r \in renders : dataMap[r[1]].active /\ dataMap[r[1]].canvasDom

\* C33: a settings push renders exactly the cameras that are active, each once, and
\* changes no entry, no channel, no socket, no suspended start and no refresh tick,
\* and issues no token request; a camera that is inactive is not rendered.
C33_PushRendersActive ==
  [][cause'.op = "push" =>
       /\ renders' = {<<c, "push">> : c \in {x \in Cams : dataMap[x].active}}
       /\ dataMap' = dataMap /\ chans' = chans /\ pending' = pending
       /\ nSock' = nSock /\ nFetch' = nFetch /\ rafQ' = rafQ]_vars

\* a push has just rendered the first camera, which is active and holds the data of
\* a message, and not the second, which is registered and inactive
C33_Witness ==
  /\ cause.op = "push" /\ renders = {<<1, "push">>}
  /\ dataMap[1].active /\ dataMap[1].tracks # 0
  /\ dataMap[2].reg /\ ~dataMap[2].active

\* the settings sockets whose keep-alive interval is set
Beating == {k \in 1..Len(settingsWs.socks) : settingsWs.socks[k].hb}

\* C34: the keep-alive interval of a settings socket is set from the socket's open
\* event to its close event and at no other time, so at most one interval is set
\* across reconnects; and a probe is written to the socket whose interval fired,
\* which has not closed.
C34_KeepAliveWhileOpen ==
  /\ [](/\ Cardinality(Beating) <= 1
        /\ \A k \in Beating : settingsWs.socks[k].ws \in {"open", "closing"}
        /\ \A k \in 1..Len(settingsWs.socks) :
             settingsWs.socks[k].ws = "open" => k \in Beating)
  /\ [][cause'.op = "settingsPing" =>
          /\ settingsWs'.last[1] = cause'.ch /\ settingsWs'.last[2] = cause'.ch
          /\ settingsWs'.last[3] \in {"open", "closing"}]_vars

\* the third socket of the channel is open with its interval set after two sockets
\* closed, and a probe has just gone through it
C34_Witness ==
  /\ cause.op = "settingsPing" /\ settingsWs.last = <<3, 3, "open">>
  /\ Beating = {3}
  /\ settingsWs.socks[1].ws = "closed" /\ settingsWs.socks[2].ws = "closed"

\* the colour the claim gives the box of track t of the last pass
FirstLineColour(t) ==
  LET n == Len(t.trail) IN
  IF pass.info.lines = <<>> \/ n < 2 THEN "yellow"
  ELSE LET ln == pass.info.lines[1] IN
       IF ln[1] = ln[3]
       THEN ClaimedColour(t.trail[n - 1], t.trail[n], 1, ln[1] * pass.info.src[1], "yellow")
       ELSE IF ln[2] = ln[4]
            THEN ClaimedColour(t.trail[n - 1], t.trail[n], 2, ln[2] * pass.info.src[2], "yellow")
            ELSE "yellow"

\* C35: the crossing of a drawn track is evaluated against the first line only and
\* only for a trail of two or more points; a first line whose x's are equal is taken
\* as vertical, also when its y's are equal too; one whose y's alone are equal as
\* horizontal; and a line that is neither never gives a crossing colour.
C35_FirstLineOnly ==
  (pass.ran /\ pass.info.src # <<>>) =>
    \A i \in DrawnTracks :
      \A j \in BoxCalls("track", pass.info.tracks[i].id) :
        pass.calls[j].style = FirstLineColour(pass.info.tracks[i])

\* a pass against a line of length zero at (0.5, 0.5): the trail went from (40, 60)
\* to (60, 40), x increasing and y decreasing, and the box is green
C35_Witness ==
  /\ pass.ran
  /\ pass.info.lines = << <<500, 500, 500, 500>> >>
  /\ Len(pass.info.tracks) = 1
  /\ pass.info.tracks[1].trail = << <<Px(40), Px(60)>>, <<Px(60), Px(40)>> >>
  /\ \E j \in BoxCalls("track", 1) : pass.calls[j].style = "green"

\* C36: saveLine for an entry with a line sends one request whose orientation is
\* 'horizontal' iff |x2 - x1| >= |y2 - y1| of the entry's first line, also for a
\* line of length zero, and 'vertical' otherwise; for a camera without an entry or
\* an entry without a line it sends nothing.
C36_SaveLineOrientation ==
  [][\A c \in Cams :
       (cause'.op = "saveLine" /\ cause'.cam = c) =>
          IF ~dataMap[c].reg \/ dataMap[c].lines = 0
          THEN editor'[c] = editor[c]
          ELSE LET b == editor'[c].sent IN
               /\ editor'[c].nSave = editor[c].nSave + 1
               /\ b.line = FirstLine(S, c)
               /\ b.orientation = "horizontal" <=>
                     Abs(b.line[3] - b.line[1]) >= Abs(b.line[4] - b.line[2])
               /\ b.orientation = "vertical" <=>
                     Abs(b.line[3] - b.line[1]) < Abs(b.line[4] - b.line[2])]_vars

\* saveLine was called during a drag that has not moved yet: the line of length zero
\* went out as horizontal
C36_Witness ==
  /\ cause.op = "saveLine" /\ editor[1].drawing
  /\ editor[1].sent = [line |-> <<1000, 300, 1000, 300>>, orientation |-> "horizontal"]

\* C40: once the user has finished drawing a line, the line saveLine sends is that
\* line: entry.lines[0] is not replaced by a detection message applied between the
\* end of the drawing and the save.
C40_SavesDrawnLine ==
  [][\A c \in Cams :
       (/\ cause'.op = "saveLine" /\ cause'.cam = c
        /\ editor[c].line # <<>> /\ ~editor[c].drawing) =>
          /\ editor'[c].nSave = editor[c].nSave + 1
          /\ editor'[c].sent.line = editor[c].line]_vars

\* C37: once no start() is suspended at its token request any more, an entry is
\* active only if at least one flag is enabled: an applyOverlay that turned every
\* flag off while start() was waiting does not leave the entry active.
C37_ActiveOnlyWithFlag ==
  Awaiting = 0 =>
    \A c \in Cams : (dataMap[c].reg /\ dataMap[c].active) => AnyFlag(S)

\* C38: an active entry has a live detection channel: its close handle refers to a
\* channel whose socket is connecting or open (or closing, with its close event
\* still to come) or whose reconnect timer is pending.
C38_ActiveHasChannel ==
  \A c \in Cams :
    (dataMap[c].reg /\ dataMap[c].active) =>
      /\ dataMap[c].close > 0
      /\ \/ chans[c][dataMap[c].close].ws \in {"connecting", "open", "closing"}
         \/ chans[c][dataMap[c].close].timer # 0

\* channel k of camera c is not torn down and has messages waiting
Waiting(c, k) ==
  k \in Channels(c) /\ chans[c][k].active /\ chans[c][k].queue # <<>>

\* C39: on a channel that is not torn down a non-empty render queue always has a
\* refresh tick pending; every tick leaves the queue of its channel empty; and so
\* messages that wait are eventually applied or superseded (or the channel is torn
\* down).
C39_QueueDrains ==
  /\ [](\A c \in Cams : \A k \in Channels(c) :
          Waiting(c, k) =>
            /\ chans[c][k].raf = "pending"
            /\ \E i \in 1..Len(rafQ) : rafQ[i] = <<c, k>>)
  /\ [][\A c \in Cams : \A k \in Channels(c) :
          Ticked(c, k) => chans'[c][k].queue = <<>>]_vars
  /\ \A c \in Cams : \A k \in 1..MaxSocks :
       Waiting(c, k) ~> ~Waiting(c, k)

\* a tick has just applied the second of two messages and left the queue empty
C39_Witness ==
  /\ cause.op = "tick" /\ cause.cam = 1 /\ renders = {<<1, "tick">>}
  /\ nMsgs = 2 /\ dataMap[1].tracks = 2
  /\ \A k \in Channels(1) : chans[1][k].queue = <<>> /\ chans[1][k].raf = "none"

====
